---- MODULE Spec2Model ----
(***************************************************************************)
(* v8ray core: the engine supervisor (XrayCore) and the connection         *)
(* orchestrator (ConnectionManager) with its reconnect loop, as a state    *)
(* machine of concurrently scheduled tasks.  Every task is a caller        *)
(* thread, a spawned reconnect loop or the event monitor; each await point *)
(* of the Rust code (a lock acquisition, a process operation, a timer) is  *)
(* one step.                                                               *)
(***************************************************************************)
EXTENDS Integers, Sequences, FiniteSets, TLC

(* ------------------------------ bounds -------------------------------- *)
\* largest max_attempts of a ReconnectConfig whose methods are called directly
MaxLimit == 5
\* number of calls made on the traffic collector in one run
MaxStatsOps == 4
\* width in bits of the byte counters (u64 in the source, narrowed so that a
\* few updates reach the end of the range)
ByteBits == 3
\* max_snapshots of the collector (TrafficStatsCollector::new(max_snapshots))
MaxSnapshots == 2
\* how far the clock advances in one run, in half seconds
MaxTime == 3
\* width in bits of the attempt number passed to calculate_delay (u32 in the
\* source, narrowed so that every value can be enumerated)
AttemptBits == 5
\* total number of API calls issued by the callers
MaxOps == 3
\* number of engine processes that can be spawned in one run
MaxProcs == 2
\* number of reconnect loops that can be spawned in one run
MaxLoops == 2
\* largest max_attempts of a ReconnectConfig, and cap of the attempt counter
MaxAttempts == 1
\* number of engine processes that exit on their own in one run
MaxCrashes == 1
\* number of health checks the health-check loops complete in one run
MaxChecks == 1
\* number of log lines the engine processes write in one run
MaxLogs == 2
\* length in bytes of the log lines passed to parse_log_line
MaxLineLen == 6

(* ------------------------------ state --------------------------------- *)
VARIABLES
    \* XrayCore (src/core/src/xray/mod.rs:167-186)
    status,          \* XrayStatus
    process_pid,     \* Option<u32>: 0 is None
    config,          \* Option<XrayConfig>: NoConfig or <<descriptor, mode>>
    start_time,      \* Option<Instant>: TRUE is Some
    health,          \* Option<XrayHealth>: TRUE is Some
    health_loops,    \* number of spawned health-check loops
    events,          \* everything sent on event_tx, in publish order
    \* the environment of the supervisor
    env,             \* what the host lets start() do
    proc,            \* pid -> "none" | "alive" | "exited" | "killed"
    reaper,          \* pid -> "none" | "waiting" | "done"
    hloop,           \* pid -> the health-check loop spawned by the start that
                     \* spawned pid: "unborn" | "tick" | "checked"
    \* ConnectionManager (src/core/src/connection/mod.rs:89-104)
    current_connection,
    history,
    current_config,
    reconnect_config,
    reconnect_cancel_tx,  \* Option<Sender>: 0 is None, else the loop's number
    next_id,              \* the next fresh connection id (Uuid::new_v4)
    \* tasks
    pc, stack, res, arg, child,
    attempts,        \* the reconnect loop's local `attempts`
    cancel_rx,       \* loop -> "empty" | "signal" | "closed"
    cursor,          \* the monitor's position in events
    rx,              \* a receiver returned by subscribe(): its position in
                     \* events and what recv() has returned so far
    \* TrafficStatsCollector (src/core/src/connection/stats.rs:29-40)
    upload_bytes,    \* u64
    download_bytes,  \* u64
    snapshots,       \* VecDeque<TrafficSnapshot>, oldest first
    last_snapshot,   \* Option<TrafficSnapshot>: NoSnapshot is None
    now,             \* the clock read by chrono::Utc::now(), in seconds
    sctl,            \* collector task -> its position and locals
    slog,            \* what the collector's callers passed and got back
    \* ReconnectConfig (src/core/src/connection/reconnect.rs:41-50)
    probe,           \* the last call of a ReconnectConfig method and its result
    \* history of the run
    calls,           \* the API calls, in call order, each with the number of
                     \* events published before it
    nstart           \* task -> number of xray.start calls it issued

xrayVars == <<status, process_pid, config, start_time, health, health_loops, events>>
envVars  == <<env, proc, reaper, hloop>>
connVars == <<current_connection, history, current_config, next_id>>
rcVars   == <<reconnect_config, reconnect_cancel_tx, cancel_rx>>
ctlVars  == <<pc, stack, res>>
statsVars == <<upload_bytes, download_bytes, snapshots, last_snapshot, now, sctl, slog>>
auxVars  == <<statsVars, probe>>
locVars  == <<arg, child, attempts, cursor, rx, auxVars>>
histVars == <<calls, nstart>>
vars == <<xrayVars, envVars, connVars, rcVars, ctlVars, locVars, histVars>>

(* ------------------------------ values -------------------------------- *)
\* the threads of the embedding application that call the API
Callers == {<<"caller", 1>>}
Loops   == {<<"loop", i>> : i \in 1..MaxLoops}
Monitor == <<"monitor", 1>>
Tasks   == Callers \cup Loops \cup {Monitor}
Pids    == 1..MaxProcs

\* the arguments connect_with_config_and_mode is called with
ConnectArgs == {<<"A", "global">>, <<"B", "smart">>}
NoConfig    == <<>>
NoDescriptor == "none"
NoConn      == [id |-> 0]

\* the hosts start() can run on: everything in place, engine binary missing,
\* binary directory not writable, binary not executable
Envs == {"ok", "nobin", "nowrite", "nospawn"}

\* the tasks that use the traffic collector: two that write, one that reads
StatsTasks == {"writer", "resetter", "reader"}
\* a collector task between two calls
Idle == [pc |-> "idle"]
NoSnapshot == [timestamp |-> -1]
\* no ReconnectConfig method has been called
NoProbe == [fn |-> "none"]

(* ------------------------- ReconnectConfig ---------------------------- *)
\* ReconnectStrategy; durations are whole seconds
Disabled == <<"Disabled">>
Immediate == <<"Immediate">>
FixedDelay(d) == <<"FixedDelay", d>>
ExponentialBackoff(initial_delay, max_delay, multiplier) ==
    <<"ExponentialBackoff", initial_delay, max_delay, multiplier>>

disabled == [strategy |-> Disabled, max_attempts |-> 0, enabled |-> FALSE]
immediate(n) == [strategy |-> Immediate, max_attempts |-> n, enabled |-> TRUE]
fixed_delay(d, n) == [strategy |-> FixedDelay(d), max_attempts |-> n, enabled |-> TRUE]
exponential_backoff(i, m, k, n) ==
    [strategy |-> ExponentialBackoff(i, m, k), max_attempts |-> n, enabled |-> TRUE]

\* should_reconnect without the check of the enabled flag
should_reconnect_ignores_enabled(cfg, current_attempts) ==
    IF cfg.strategy = Disabled THEN FALSE
    ELSE IF cfg.max_attempts > 0 /\ current_attempts >= cfg.max_attempts THEN FALSE
    ELSE TRUE

\* should_reconnect with the limit compared by > : one attempt too many
should_reconnect_beyond_limit(cfg, current_attempts) ==
    IF ~cfg.enabled THEN FALSE
    ELSE IF cfg.strategy = Disabled THEN FALSE
    ELSE IF cfg.max_attempts > 0 /\ current_attempts > cfg.max_attempts THEN FALSE
    ELSE TRUE

should_reconnect(cfg, current_attempts) ==
    IF ~cfg.enabled THEN FALSE
    ELSE IF cfg.strategy = Disabled THEN FALSE
    ELSE IF cfg.max_attempts > 0 /\ current_attempts >= cfg.max_attempts THEN FALSE
    ELSE TRUE

\* `attempt as i32`: the same bits read as a signed number
as_i32(n) ==
    IF n >= 2 ^ (AttemptBits - 1) THEN n - 2 ^ AttemptBits ELSE n

\* min(x * m^e, cap) for e >= 0 and m >= 1, the product capped as it grows
RECURSIVE scaled_up(_, _, _, _)
scaled_up(x, m, e, cap) ==
    IF e = 0 \/ x >= cap THEN (IF x < cap THEN x ELSE cap)
    ELSE scaled_up(x * m, m, e - 1, cap)

\* the whole seconds of x * m^(-e) for e >= 0 and m >= 1
RECURSIVE scaled_down(_, _, _)
scaled_down(x, m, e) ==
    IF e = 0 \/ x = 0 \/ m = 1 THEN x ELSE scaled_down(x \div m, m, e - 1)

\* calculate_delay(attempt), in whole seconds: initial_delay *
\* multiplier.powi(attempt as i32), then min with max_delay
calculate_delay(cfg, attempt) ==
    LET s == cfg.strategy
    IN  IF s[1] = "Disabled" THEN 0
        ELSE IF s[1] = "Immediate" THEN 0
        ELSE IF s[1] = "FixedDelay" THEN s[2]
        ELSE LET e == as_i32(attempt)
             IN  IF e >= 0 THEN scaled_up(s[2], s[4], e, s[3])
                 ELSE LET d == scaled_down(s[2], s[4], 0 - e)
                      IN  IF d < s[3] THEN d ELSE s[3]

\* the configurations an orchestrator is constructed with
ReconnectConfigs ==
    {disabled} \cup {immediate(n) : n \in 0..MaxAttempts}

(* --------------------------- control flow ----------------------------- *)
Jump(t, l) ==
    /\ pc' = [pc EXCEPT ![t] = l]
    /\ UNCHANGED <<stack, res>>

CallProc(t, entry, ret) ==
    /\ pc' = [pc EXCEPT ![t] = entry]
    /\ stack' = [stack EXCEPT ![t] = <<ret>> \o @]
    /\ UNCHANGED res

Return(t, r) ==
    /\ pc' = [pc EXCEPT ![t] = Head(stack[t])]
    /\ stack' = [stack EXCEPT ![t] = Tail(@)]
    /\ res' = [res EXCEPT ![t] = r]

\* an event on the bus; `by` is not part of the event: it records which code
\* sent it ("start", "stop" or "reaper")
StatusChanged(s, by) == [kind |-> "StatusChanged", status |-> s, by |-> by]

\* the broadcast channel keeps this many events for a receiver that is behind
\* (broadcast::channel(100) in the source, scaled down)
BusCapacity == 2

\* no receiver has been handed out
NoRx == [on |-> FALSE, since |-> 0, pos |-> 0, got |-> <<>>, lagged |-> 0]

\* an update_status whose send needs a receiver with room: it does not
\* complete while nobody is subscribed or the receiver is a full channel behind
update_status_awaits_receiver(s, by) ==
    /\ rx.on
    /\ Len(events) - rx.pos < BusCapacity
    /\ status' = s
    /\ events' = Append(events, StatusChanged(s, by))

\* update_status: the status write and the send under the status lock; the
\* result of the send is dropped
update_status(s, by) ==
    /\ status' = s
    /\ events' = Append(events, StatusChanged(s, by))

(* ------------------------------ XrayCore ------------------------------ *)
\* a start that skips the Running check
StartCheckSkipped(t) ==
    /\ pc[t] = "start"
    /\ nstart' = [nstart EXCEPT ![t] = @ + 1]
    /\ Jump(t, "st_upd")
    /\ UNCHANGED <<xrayVars, envVars, connVars, rcVars, locVars, calls>>

\* start(): the Running check
StartCheck(t) ==
    /\ pc[t] = "start"
    /\ nstart' = [nstart EXCEPT ![t] = @ + 1]
    /\ IF status = "Running" THEN Return(t, "Ok") ELSE Jump(t, "st_upd")
    /\ UNCHANGED <<xrayVars, envVars, connVars, rcVars, locVars, calls>>

\* start(): update_status(Starting), then the configuration is saved (the
\* saved configuration is read by restart() alone)
StartUpd(t) ==
    /\ pc[t] = "st_upd"
    /\ update_status("Starting", "start")
    /\ config' = arg[t]
    /\ Jump(t, "st_spawn")
    /\ UNCHANGED <<process_pid, start_time, health, health_loops>>
    /\ UNCHANGED <<envVars, connVars, rcVars, locVars, histVars>>

\* start(): find the binary, write config.json, spawn; each failure returns
\* through `?` and leaves the status as it is
StartSpawn(t) ==
    /\ pc[t] = "st_spawn"
    /\ IF env = "nobin" THEN Return(t, "NotFound") /\ UNCHANGED <<proc, child>>
       ELSE IF env = "nowrite" THEN Return(t, "Io") /\ UNCHANGED <<proc, child>>
       ELSE IF env = "nospawn" THEN Return(t, "SpawnFailed") /\ UNCHANGED <<proc, child>>
       ELSE \E p \in Pids :
              /\ proc[p] = "none"
              /\ \A q \in Pids : q < p => proc[q] # "none"
              /\ proc' = [proc EXCEPT ![p] = "alive"]
              /\ child' = [child EXCEPT ![t] = p]
              /\ Jump(t, "st_pid")
    /\ UNCHANGED <<xrayVars, env, reaper, hloop, connVars, rcVars, arg, attempts, cursor, rx, auxVars, histVars>>

\* start(): store the PID
StartPid(t) ==
    /\ pc[t] = "st_pid"
    /\ process_pid' = child[t]
    /\ Jump(t, "st_grace")
    /\ UNCHANGED <<status, config, start_time, health, health_loops, events>>
    /\ UNCHANGED <<envVars, connVars, rcVars, locVars, histVars>>

\* start(): after the grace interval, try_wait
StartGrace(t) ==
    /\ pc[t] = "st_grace"
    /\ IF proc[child[t]] # "alive" THEN Return(t, "ExitedEarly") ELSE Jump(t, "st_time")
    /\ UNCHANGED <<xrayVars, envVars, connVars, rcVars, locVars, histVars>>

\* start(): spawn the log readers and the reaper, record the start time
StartTime(t) ==
    /\ pc[t] = "st_time"
    /\ reaper' = [reaper EXCEPT ![child[t]] = "waiting"]
    /\ start_time' = TRUE
    /\ Jump(t, "st_run")
    /\ UNCHANGED <<status, process_pid, config, health, health_loops, events>>
    /\ UNCHANGED <<env, proc, hloop, connVars, rcVars, locVars, histVars>>

\* start(): start_monitoring, update_status(Running), Ok
StartRun(t) ==
    /\ pc[t] = "st_run"
    /\ health_loops' = health_loops + 1
    /\ hloop' = [hloop EXCEPT ![child[t]] = "tick"]
    /\ update_status("Running", "start")
    /\ Return(t, "Ok")
    /\ UNCHANGED <<process_pid, config, start_time, health>>
    /\ UNCHANGED <<env, proc, reaper, connVars, rcVars, locVars, histVars>>

\* stop(): the Stopped check
StopCheck(t) ==
    /\ pc[t] = "stop"
    /\ IF status = "Stopped" THEN Return(t, "Ok") ELSE Jump(t, "sp_upd")
    /\ UNCHANGED <<xrayVars, envVars, connVars, rcVars, locVars, histVars>>

\* stop(): update_status(Stopping)
StopUpd(t) ==
    /\ pc[t] = "sp_upd"
    /\ update_status("Stopping", "stop")
    /\ Jump(t, "sp_kill")
    /\ UNCHANGED <<process_pid, config, start_time, health, health_loops>>
    /\ UNCHANGED <<envVars, connVars, rcVars, locVars, histVars>>

\* stop(): take the PID and signal it (SIGTERM, 500 ms, SIGKILL), all under
\* the process_pid write lock
StopKill(t) ==
    /\ pc[t] = "sp_kill"
    /\ process_pid' = 0
    /\ proc' = IF process_pid # 0 /\ proc[process_pid] = "alive"
               THEN [proc EXCEPT ![process_pid] = "killed"]
               ELSE proc
    /\ Jump(t, "sp_clear")
    /\ UNCHANGED <<status, config, start_time, health, health_loops, events>>
    /\ UNCHANGED <<env, reaper, hloop, connVars, rcVars, locVars, histVars>>

\* stop(): clear the start time, then the health info
StopClear(t) ==
    /\ pc[t] = "sp_clear"
    /\ start_time' = FALSE
    /\ health' = FALSE
    /\ Jump(t, "sp_done")
    /\ UNCHANGED <<status, process_pid, config, health_loops, events>>
    /\ UNCHANGED <<envVars, connVars, rcVars, locVars, histVars>>

\* stop(): update_status(Stopped), Ok
StopDone(t) ==
    /\ pc[t] = "sp_done"
    /\ update_status("Stopped", "stop")
    /\ Return(t, "Ok")
    /\ UNCHANGED <<process_pid, config, start_time, health, health_loops>>
    /\ UNCHANGED <<envVars, connVars, rcVars, locVars, histVars>>

\* the engine process exits on its own
ProcessExit(p) ==
    /\ proc[p] = "alive"
    /\ Cardinality({q \in Pids : proc[q] = "exited"}) < MaxCrashes
    /\ proc' = [proc EXCEPT ![p] = "exited"]
    /\ UNCHANGED <<xrayVars, env, reaper, hloop, connVars, rcVars, ctlVars, locVars, histVars>>

\* the reaper task of start(): child.wait() returned, send StatusChanged(Stopped)
Reaper(p) ==
    /\ reaper[p] = "waiting"
    /\ proc[p] \in {"exited", "killed"}
    /\ reaper' = [reaper EXCEPT ![p] = "done"]
    /\ events' = Append(events, StatusChanged("Stopped", "reaper"))
    /\ UNCHANGED <<status, process_pid, config, start_time, health, health_loops>>
    /\ UNCHANGED <<env, proc, hloop, connVars, rcVars, ctlVars, locVars, histVars>>

\* a LogReceived event on the bus
LogReceived == [kind |-> "LogReceived", status |-> "", by |-> "logs"]

\* monitor_logs: a log-reader task of a running engine reads a line and sends
\* LogReceived
LogLine(p) ==
    /\ reaper[p] # "none"
    /\ proc[p] = "alive"
    /\ Cardinality({i \in 1..Len(events) : events[i].kind = "LogReceived"}) < MaxLogs
    /\ events' = Append(events, LogReceived)
    /\ UNCHANGED <<status, process_pid, config, start_time, health, health_loops>>
    /\ UNCHANGED <<envVars, connVars, rcVars, ctlVars, locVars, histVars>>

\* a HealthCheck event on the bus
HealthCheck == [kind |-> "HealthCheck", status |-> "", by |-> "health"]

\* the health-check loop: a tick of the interval, then the status is read; the
\* loop goes on to the health write only when it reads Running
HealthRead(p) ==
    /\ hloop[p] = "tick"
    /\ status = "Running"
    /\ Cardinality({i \in 1..Len(events) : events[i].kind = "HealthCheck"})
         + Cardinality({q \in Pids : hloop[q] = "checked"}) < MaxChecks
    /\ hloop' = [hloop EXCEPT ![p] = "checked"]
    /\ UNCHANGED <<xrayVars, env, proc, reaper, connVars, rcVars, ctlVars, locVars, histVars>>

\* the health-check loop: write the health info, send HealthCheck
HealthWrite(p) ==
    /\ hloop[p] = "checked"
    /\ health' = TRUE
    /\ events' = Append(events, HealthCheck)
    /\ hloop' = [hloop EXCEPT ![p] = "tick"]
    /\ UNCHANGED <<status, process_pid, config, start_time, health_loops>>
    /\ UNCHANGED <<env, proc, reaper, connVars, rcVars, ctlVars, locVars, histVars>>

\* restart(): capture the saved configuration, then stop()
RestartRead(t) ==
    /\ pc[t] = "restart"
    /\ arg' = [arg EXCEPT ![t] = config]
    /\ CallProc(t, "stop", "rs_stopped")
    /\ UNCHANGED <<child, attempts, cursor, rx, auxVars>>
    /\ UNCHANGED <<xrayVars, envVars, connVars, rcVars, histVars>>

\* restart() that returns after stop() without starting the engine again
RestartStoppedSkipsStart(t) ==
    /\ pc[t] = "rs_stopped"
    /\ Return(t, "Ok")
    /\ UNCHANGED <<xrayVars, envVars, connVars, rcVars, locVars, histVars>>

\* restart(): start(config) when a configuration was captured, else Ok
RestartStopped(t) ==
    /\ pc[t] = "rs_stopped"
    /\ IF arg[t] # NoConfig THEN CallProc(t, "start", "rs_done") ELSE Return(t, "Ok")
    /\ UNCHANGED <<xrayVars, envVars, connVars, rcVars, locVars, histVars>>

\* restart(): the result of start, returned through `?`
RestartDone(t) ==
    /\ pc[t] = "rs_done"
    /\ Return(t, res[t])
    /\ UNCHANGED <<xrayVars, envVars, connVars, rcVars, locVars, histVars>>

(* -------------------------- ConnectionManager -------------------------- *)
Connection(id, d) ==
    [id |-> id, desc |-> d, state |-> "Connecting", reason |-> "",
     last_error |-> "", reconnect_attempts |-> 0, upload |-> 0, download |-> 0]

\* get_state()
get_state == IF current_connection = NoConn THEN "Disconnected"
             ELSE current_connection.state

\* connect_with_config_and_mode(): disconnect an existing connection first
ConnectCheck(t) ==
    /\ pc[t] = "connect"
    /\ IF get_state # "Disconnected"
       THEN CallProc(t, "disconnect", "c_new")
       ELSE Jump(t, "c_new")
    /\ UNCHANGED <<xrayVars, envVars, connVars, rcVars, locVars, histVars>>

\* connect_with_config_and_mode(): create the Connection, fill the live slot
ConnectNew(t) ==
    /\ pc[t] = "c_new"
    /\ current_connection' = Connection(next_id, arg[t][1])
    /\ next_id' = next_id + 1
    /\ Jump(t, "c_store")
    /\ UNCHANGED <<history, current_config>>
    /\ UNCHANGED <<xrayVars, envVars, rcVars, locVars, histVars>>

\* a connect that calls xray.start without storing the descriptor
ConnectStoreSkipsDescriptor(t) ==
    /\ pc[t] = "c_store"
    /\ CallProc(t, "start", "c_result")
    /\ UNCHANGED <<current_connection, history, current_config, next_id>>
    /\ UNCHANGED <<xrayVars, envVars, rcVars, locVars, histVars>>

\* connect_with_config_and_mode(): store the descriptor, generate the engine
\* configuration with the mode and call xray.start
ConnectStore(t) ==
    /\ pc[t] = "c_store"
    /\ current_config' = arg[t][1]
    /\ CallProc(t, "start", "c_result")
    /\ UNCHANGED <<current_connection, history, next_id>>
    /\ UNCHANGED <<xrayVars, envVars, rcVars, locVars, histVars>>

\* a connect that records the failure of start but returns Ok
ConnectResultReportsSuccess(t) ==
    /\ pc[t] = "c_result"
    /\ current_connection' =
         IF current_connection = NoConn THEN NoConn
         ELSE IF res[t] = "Ok"
              THEN [current_connection EXCEPT !.state = "Connected"]
              ELSE [current_connection EXCEPT !.state = "Error", !.reason = res[t],
                                              !.last_error = res[t]]
    /\ Return(t, "Ok")
    /\ UNCHANGED <<history, current_config, next_id>>
    /\ UNCHANGED <<xrayVars, envVars, rcVars, locVars, histVars>>

\* connect_with_config_and_mode(): the match on start's result
ConnectResult(t) ==
    /\ pc[t] = "c_result"
    /\ current_connection' =
         IF current_connection = NoConn THEN NoConn
         ELSE IF res[t] = "Ok"
              THEN [current_connection EXCEPT !.state = "Connected"]
              ELSE [current_connection EXCEPT !.state = "Error", !.reason = res[t],
                                              !.last_error = res[t]]
    /\ Return(t, IF res[t] = "Ok" THEN "Ok" ELSE "Err")
    /\ UNCHANGED <<history, current_config, next_id>>
    /\ UNCHANGED <<xrayVars, envVars, rcVars, locVars, histVars>>

\* disconnect(): state Disconnecting, then xray.stop
DisconnectBegin(t) ==
    /\ pc[t] = "disconnect"
    /\ current_connection' =
         IF current_connection = NoConn THEN NoConn
         ELSE [current_connection EXCEPT !.state = "Disconnecting"]
    /\ CallProc(t, "stop", "d_move")
    /\ UNCHANGED <<history, current_config, next_id>>
    /\ UNCHANGED <<xrayVars, envVars, rcVars, locVars, histVars>>

\* a push that never evicts
push_history_unbounded(h, c) == Append(h, c)

\* the history after a push that keeps the last HistoryCapacity records
HistoryCapacity == 100
push_history(h, c) ==
    LET pushed == Append(h, c)
    IN  IF Len(pushed) > HistoryCapacity THEN Tail(pushed) ELSE pushed

\* a disconnect that clears the live slot without recording the connection
DisconnectMoveDropsRecord(t) ==
    /\ pc[t] = "d_move"
    /\ history' = history
    /\ current_connection' = NoConn
    /\ Jump(t, "d_clear")
    /\ UNCHANGED <<current_config, next_id>>
    /\ UNCHANGED <<xrayVars, envVars, rcVars, locVars, histVars>>

\* disconnect(): state Disconnected, move to history, clear the live slot
DisconnectMove(t) ==
    /\ pc[t] = "d_move"
    /\ history' =
         IF current_connection = NoConn THEN history
         ELSE push_history(history,
                           [current_connection EXCEPT !.state = "Disconnected"])
    /\ current_connection' = NoConn
    /\ Jump(t, "d_clear")
    /\ UNCHANGED <<current_config, next_id>>
    /\ UNCHANGED <<xrayVars, envVars, rcVars, locVars, histVars>>

\* disconnect(): clear the stored descriptor, Ok
DisconnectClear(t) ==
    /\ pc[t] = "d_clear"
    /\ current_config' = NoDescriptor
    /\ Return(t, "Ok")
    /\ UNCHANGED <<current_connection, history, next_id>>
    /\ UNCHANGED <<xrayVars, envVars, rcVars, locVars, histVars>>

\* enable_auto_reconnect()
EnableAutoReconnect(t) ==
    /\ pc[t] = "enable"
    /\ reconnect_config' = [reconnect_config EXCEPT !.enabled = TRUE]
    /\ Return(t, "Ok")
    /\ UNCHANGED <<reconnect_cancel_tx, cancel_rx>>
    /\ UNCHANGED <<xrayVars, envVars, connVars, locVars, histVars>>

\* cancel_reconnect_task(): take the sender and send on it
cancel_reconnect_task ==
    /\ reconnect_cancel_tx' = 0
    /\ cancel_rx' = IF reconnect_cancel_tx = 0 THEN cancel_rx
                    ELSE [cancel_rx EXCEPT ![<<"loop", reconnect_cancel_tx>>] = "signal"]

\* disable_auto_reconnect(): enabled = false and the cancellation, the
\* reconnect_config write lock held throughout
DisableAutoReconnect(t) ==
    /\ pc[t] = "disable"
    /\ reconnect_config' = [reconnect_config EXCEPT !.enabled = FALSE]
    /\ cancel_reconnect_task
    /\ Return(t, "Ok")
    /\ UNCHANGED <<xrayVars, envVars, connVars, locVars, histVars>>

\* start_auto_reconnect(): cancel any existing reconnect task
SarCancel(t) ==
    /\ pc[t] = "start_auto_reconnect"
    /\ cancel_reconnect_task
    /\ Jump(t, "sar_enabled")
    /\ UNCHANGED reconnect_config
    /\ UNCHANGED <<xrayVars, envVars, connVars, locVars, histVars>>

\* start_auto_reconnect(): return when auto-reconnect is not enabled
SarEnabled(t) ==
    /\ pc[t] = "sar_enabled"
    /\ IF ~reconnect_config.enabled THEN Return(t, "Ok") ELSE Jump(t, "sar_config")
    /\ UNCHANGED <<xrayVars, envVars, connVars, rcVars, locVars, histVars>>

\* start_auto_reconnect(): return when no descriptor is stored
SarConfig(t) ==
    /\ pc[t] = "sar_config"
    /\ IF current_config = NoDescriptor THEN Return(t, "Ok") ELSE Jump(t, "sar_spawn")
    /\ UNCHANGED <<xrayVars, envVars, connVars, rcVars, locVars, histVars>>

\* start_auto_reconnect(): create the cancellation channel, store its sender
\* (a sender still stored is dropped, which closes its channel) and spawn the
\* loop
SarSpawn(t) ==
    /\ pc[t] = "sar_spawn"
    /\ \E i \in 1..MaxLoops :
         /\ pc[<<"loop", i>>] = "unborn"
         /\ \A j \in 1..MaxLoops : j < i => pc[<<"loop", j>>] # "unborn"
         /\ reconnect_cancel_tx' = i
         /\ cancel_rx' =
              IF reconnect_cancel_tx = 0 THEN cancel_rx
              ELSE [cancel_rx EXCEPT ![<<"loop", reconnect_cancel_tx>>] =
                        IF @ = "empty" THEN "closed" ELSE @]
         /\ pc' = [pc EXCEPT ![t] = Head(stack[t]), ![<<"loop", i>>] = "lp_read"]
         /\ stack' = [stack EXCEPT ![t] = Tail(@)]
         /\ res' = [res EXCEPT ![t] = "Ok"]
    /\ UNCHANGED reconnect_config
    /\ UNCHANGED <<xrayVars, envVars, connVars, locVars, histVars>>

\* the loop: read the current attempts
LoopRead(t) ==
    /\ pc[t] = "lp_read"
    /\ attempts' = [attempts EXCEPT ![t] =
                      IF current_connection = NoConn THEN 0
                      ELSE current_connection.reconnect_attempts]
    /\ Jump(t, "lp_check")
    /\ UNCHANGED <<arg, child, cursor, rx, auxVars>>
    /\ UNCHANGED <<xrayVars, envVars, connVars, rcVars, histVars>>

\* the loop: break unless should_reconnect(attempts)
LoopCheck(t) ==
    /\ pc[t] = "lp_check"
    /\ IF should_reconnect(reconnect_config, attempts[t])
       THEN Jump(t, "lp_select")
       ELSE Jump(t, "lp_done")
    /\ UNCHANGED <<xrayVars, envVars, connVars, rcVars, locVars, histVars>>

\* the loop, select!: the sleep branch. The timer of calculate_delay has
\* fired; reconnect_attempts += 1 and state Reconnecting
LoopSleep(t) ==
    /\ pc[t] = "lp_select"
    /\ nstart[t] <= MaxAttempts
    /\ current_connection' =
         IF current_connection = NoConn THEN NoConn
         ELSE [current_connection EXCEPT
                 !.reconnect_attempts = @ + 1, !.state = "Reconnecting"]
    /\ Jump(t, "lp_config")
    /\ UNCHANGED <<history, current_config, next_id>>
    /\ UNCHANGED <<xrayVars, envVars, rcVars, locVars, histVars>>

\* the loop, select!: the cancel branch. recv() returned, a value or Closed
LoopCancel(t) ==
    /\ pc[t] = "lp_select"
    /\ cancel_rx[t] # "empty"
    /\ Jump(t, "lp_done")
    /\ UNCHANGED <<xrayVars, envVars, connVars, rcVars, locVars, histVars>>

\* the loop: read the stored descriptor, generate the configuration with
\* generate_config (mode "global") and call xray.start
LoopConfig(t) ==
    /\ pc[t] = "lp_config"
    /\ IF current_config = NoDescriptor
       THEN Jump(t, "lp_done") /\ UNCHANGED arg
       ELSE /\ arg' = [arg EXCEPT ![t] = <<current_config, "global">>]
            /\ CallProc(t, "start", "lp_result")
    /\ UNCHANGED <<child, attempts, cursor, rx, auxVars>>
    /\ UNCHANGED <<xrayVars, envVars, connVars, rcVars, histVars>>

\* a loop that on success sets Connected but keeps the attempt count and the
\* last error
LoopResultKeepsAttempts(t) ==
    /\ pc[t] = "lp_result"
    /\ current_connection' =
         IF current_connection = NoConn THEN NoConn
         ELSE IF res[t] = "Ok"
              THEN [current_connection EXCEPT !.state = "Connected", !.reason = ""]
              ELSE [current_connection EXCEPT !.state = "Error", !.reason = res[t],
                                              !.last_error = res[t]]
    /\ Jump(t, IF res[t] = "Ok" THEN "lp_done" ELSE "lp_read")
    /\ UNCHANGED <<history, current_config, next_id>>
    /\ UNCHANGED <<xrayVars, envVars, rcVars, locVars, histVars>>

\* the loop: the match on start's result
LoopResult(t) ==
    /\ pc[t] = "lp_result"
    /\ current_connection' =
         IF current_connection = NoConn THEN NoConn
         ELSE IF res[t] = "Ok"
              THEN [current_connection EXCEPT !.reconnect_attempts = 0,
                       !.state = "Connected", !.reason = "", !.last_error = ""]
              ELSE [current_connection EXCEPT !.state = "Error", !.reason = res[t],
                                              !.last_error = res[t]]
    /\ Jump(t, IF res[t] = "Ok" THEN "lp_done" ELSE "lp_read")
    /\ UNCHANGED <<history, current_config, next_id>>
    /\ UNCHANGED <<xrayVars, envVars, rcVars, locVars, histVars>>

\* the monitor task: recv() returns Err(Lagged) when more events than the
\* channel keeps were sent since its last recv; `while let Ok(event)` ends
\* there and the task is over
MonitorLagged(t) ==
    /\ pc[t] = "mon_recv"
    /\ Len(events) - cursor > BusCapacity
    /\ cursor' = Len(events) - BusCapacity
    /\ pc' = [pc EXCEPT ![t] = "mon_done"]
    /\ UNCHANGED <<stack, res>>
    /\ UNCHANGED <<arg, child, attempts, rx, auxVars>>
    /\ UNCHANGED <<xrayVars, envVars, connVars, rcVars, histVars>>

\* the monitor task: recv() an event; StatusChanged(Error(_)) triggers
\* start_auto_reconnect, everything else is ignored
MonitorRecv(t) ==
    /\ pc[t] = "mon_recv"
    /\ cursor < Len(events)
    /\ Len(events) - cursor <= BusCapacity
    /\ cursor' = cursor + 1
    /\ IF /\ events[cursor + 1].kind = "StatusChanged"
          /\ events[cursor + 1].status = "Error"
       THEN CallProc(t, "start_auto_reconnect", "mon_recv")
       ELSE UNCHANGED ctlVars
    /\ UNCHANGED <<arg, child, attempts, rx, auxVars>>
    /\ UNCHANGED <<xrayVars, envVars, connVars, rcVars, histVars>>

\* increment_reconnect_attempts(): += 1 on the live connection, if any
IncrementReconnectAttempts(t) ==
    /\ pc[t] = "increment_reconnect_attempts"
    /\ current_connection' =
         IF current_connection = NoConn THEN NoConn
         ELSE [current_connection EXCEPT !.reconnect_attempts = @ + 1]
    /\ Return(t, "Ok")
    /\ UNCHANGED <<history, current_config, next_id>>
    /\ UNCHANGED <<xrayVars, envVars, rcVars, locVars, histVars>>

\* update_stats(): under the current_connection write lock, add to the live
\* connection's stats; then update_traffic on the collector, the lock still
\* held. A sum that does not fit the u64 wraps around, or panics where overflow
\* checks are compiled in, which ends the call before the collector is updated
UpdateStatsConn(t) ==
    /\ sctl[t].pc = "us_conn"
    /\ LET u == sctl[t].arg[1]
           d == sctl[t].arg[2]
           c == current_connection
       IN  \/ /\ current_connection' =
                   IF c = NoConn THEN NoConn
                   ELSE [c EXCEPT !.upload = (@ + u) % (2 ^ ByteBits),
                                  !.download = (@ + d) % (2 ^ ByteBits)]
              /\ sctl' = [sctl EXCEPT ![t].pc = "ut_upload"]
           \/ /\ c # NoConn
              /\ c.upload + u >= 2 ^ ByteBits
              /\ UNCHANGED current_connection
              /\ sctl' = [sctl EXCEPT ![t] = Idle]
           \/ /\ c # NoConn
              /\ c.upload + u < 2 ^ ByteBits
              /\ c.download + d >= 2 ^ ByteBits
              /\ current_connection' = [c EXCEPT !.upload = @ + u]
              /\ sctl' = [sctl EXCEPT ![t] = Idle]
    /\ UNCHANGED <<history, current_config, next_id>>
    /\ UNCHANGED <<upload_bytes, download_bytes, snapshots, last_snapshot, now, slog>>
    /\ UNCHANGED <<xrayVars, envVars, rcVars, ctlVars, histVars>>
    /\ UNCHANGED <<arg, child, attempts, cursor, rx, probe>>

(* ------------------------ TrafficStatsCollector ------------------------ *)
\* the byte counters are ByteBits wide
ByteMod == 2 ^ ByteBits

\* the (upload, download) pairs passed to update_traffic and update_stats
Deltas == {<<1, 2>>, <<5, 3>>}

\* the write locks held across an await: update_traffic and reset take the
\* upload lock first and keep it while they wait for the next one
HoldsUpload(t) == sctl[t].pc \in {"ut_download", "rs_download", "rs_snapshots", "rs_last"}
HoldsDownload(t) == sctl[t].pc \in {"rs_snapshots", "rs_last"}
HoldsSnapshots(t) == sctl[t].pc \in {"rs_last"}
UploadFree == \A t \in StatsTasks : ~HoldsUpload(t)
DownloadFree == \A t \in StatsTasks : ~HoldsDownload(t)
SnapshotsFree == \A t \in StatsTasks : ~HoldsSnapshots(t)

\* a collector call that has taken effect or returned, with the totals and
\* the history as they are after it
Logged(t, op, a, out) ==
    slog' = Append(slog, [by |-> t, op |-> op, arg |-> a, out |-> out,
                          from |-> sctl[t].from,
                          up |-> upload_bytes', down |-> download_bytes',
                          snaps |-> snapshots'])

\* a task calls a collector method: from is the number of effects logged so far
StatsCall(t, entry, a) ==
    /\ sctl[t] = Idle
    /\ Len(slog) + Cardinality({x \in StatsTasks : sctl[x] # Idle}) < MaxStatsOps
    /\ sctl' = [sctl EXCEPT ![t] = [pc |-> entry, arg |-> a, from |-> Len(slog)]]

OtherThanStats ==
    <<xrayVars, envVars, connVars, rcVars, ctlVars, histVars,
      arg, child, attempts, cursor, rx, probe>>

\* update_traffic(): the upload write lock
UtUpload(t) ==
    /\ sctl[t].pc = "ut_upload"
    /\ UploadFree
    /\ sctl' = [sctl EXCEPT ![t].pc = "ut_download"]
    /\ UNCHANGED <<upload_bytes, download_bytes, snapshots, last_snapshot, now, slog>>
    /\ UNCHANGED OtherThanStats

\* update_traffic(): the download write lock, then both `+=`. A sum that does
\* not fit the counter wraps around, or panics where overflow checks are
\* compiled in: the call ends there, with the upload total already written
\* when it is the download sum that overflowed
UtDownload(t) ==
    /\ sctl[t].pc = "ut_download"
    /\ UNCHANGED <<snapshots, last_snapshot, now>>
    /\ DownloadFree
    /\ LET u == sctl[t].arg[1]
           d == sctl[t].arg[2]
       IN  \/ /\ upload_bytes' = (upload_bytes + u) % ByteMod
              /\ download_bytes' = (download_bytes + d) % ByteMod
              /\ Logged(t, "update_traffic", sctl[t].arg, "Ok")
           \/ /\ upload_bytes + u >= ByteMod
              /\ UNCHANGED <<upload_bytes, download_bytes>>
              /\ Logged(t, "update_traffic", sctl[t].arg, "panic")
           \/ /\ upload_bytes + u < ByteMod
              /\ download_bytes + d >= ByteMod
              /\ upload_bytes' = upload_bytes + u
              /\ UNCHANGED download_bytes
              /\ Logged(t, "update_traffic", sctl[t].arg, "panic")
    /\ sctl' = [sctl EXCEPT ![t] = Idle]
    /\ UNCHANGED OtherThanStats

\* get_totals(): read the upload total; the guard is dropped at once
GtUpload(t) ==
    /\ sctl[t].pc = "gt_upload"
    /\ UploadFree
    /\ sctl' = [sctl EXCEPT ![t] = [pc |-> "gt_download", arg |-> <<>>,
                                    from |-> sctl[t].from, up |-> upload_bytes]]
    /\ UNCHANGED <<upload_bytes, download_bytes, snapshots, last_snapshot, now, slog>>
    /\ UNCHANGED OtherThanStats

\* get_totals(): read the download total, return the pair
GtDownload(t) ==
    /\ sctl[t].pc = "gt_download"
    /\ UNCHANGED <<upload_bytes, download_bytes, snapshots, last_snapshot, now>>
    /\ DownloadFree
    /\ Logged(t, "get_totals", <<>>, <<sctl[t].up, download_bytes>>)
    /\ sctl' = [sctl EXCEPT ![t] = Idle]
    /\ UNCHANGED OtherThanStats

\* reset(): the four write locks, one after the other
RsUpload(t) ==
    /\ sctl[t].pc = "rs_upload"
    /\ UploadFree
    /\ sctl' = [sctl EXCEPT ![t].pc = "rs_download"]
    /\ UNCHANGED <<upload_bytes, download_bytes, snapshots, last_snapshot, now, slog>>
    /\ UNCHANGED OtherThanStats

\* a reset that, holding the upload lock, takes the current_connection lock
\* before the download lock: the reverse of update_stats' order
RsDownloadLocksConnection(t) ==
    /\ sctl[t].pc = "rs_download"
    /\ DownloadFree
    /\ \A x \in StatsTasks : sctl[x].pc \notin {"ut_upload", "ut_download"}
    /\ sctl' = [sctl EXCEPT ![t].pc = "rs_snapshots"]
    /\ UNCHANGED <<upload_bytes, download_bytes, snapshots, last_snapshot, now, slog>>
    /\ UNCHANGED OtherThanStats

RsDownload(t) ==
    /\ sctl[t].pc = "rs_download"
    /\ DownloadFree
    /\ sctl' = [sctl EXCEPT ![t].pc = "rs_snapshots"]
    /\ UNCHANGED <<upload_bytes, download_bytes, snapshots, last_snapshot, now, slog>>
    /\ UNCHANGED OtherThanStats

RsSnapshots(t) ==
    /\ sctl[t].pc = "rs_snapshots"
    /\ SnapshotsFree
    /\ sctl' = [sctl EXCEPT ![t].pc = "rs_last"]
    /\ UNCHANGED <<upload_bytes, download_bytes, snapshots, last_snapshot, now, slog>>
    /\ UNCHANGED OtherThanStats

\* reset(): the last lock, then the four writes with every lock held
RsLast(t) ==
    /\ sctl[t].pc = "rs_last"
    /\ UNCHANGED now
    /\ upload_bytes' = 0
    /\ download_bytes' = 0
    /\ snapshots' = <<>>
    /\ last_snapshot' = NoSnapshot
    /\ Logged(t, "reset", <<>>, "Ok")
    /\ sctl' = [sctl EXCEPT ![t] = Idle]
    /\ UNCHANGED OtherThanStats

\* the clock advances by half a second
Tick ==
    /\ now < MaxTime
    /\ now' = now + 1
    /\ UNCHANGED <<upload_bytes, download_bytes, snapshots, last_snapshot, sctl, slog>>
    /\ UNCHANGED OtherThanStats

\* take_snapshot(): get_totals, first read
TsUpload(t) ==
    /\ sctl[t].pc = "ts_upload"
    /\ UploadFree
    /\ sctl' = [sctl EXCEPT ![t] = [pc |-> "ts_download", arg |-> <<>>,
                                    from |-> sctl[t].from, up |-> upload_bytes]]
    /\ UNCHANGED <<upload_bytes, download_bytes, snapshots, last_snapshot, now, slog>>
    /\ UNCHANGED OtherThanStats

\* take_snapshot(): get_totals, second read, and the clock is read
TsDownload(t) ==
    /\ sctl[t].pc = "ts_download"
    /\ DownloadFree
    /\ sctl' = [sctl EXCEPT ![t] = [pc |-> "ts_last", arg |-> <<>>,
                                    from |-> sctl[t].from, up |-> sctl[t].up,
                                    down |-> download_bytes, at |-> now]]
    /\ UNCHANGED <<upload_bytes, download_bytes, snapshots, last_snapshot, now, slog>>
    /\ UNCHANGED OtherThanStats

\* u64::saturating_sub
saturating_sub(a, b) == IF a >= b THEN a - b ELSE 0

\* num_seconds() of a span given in half seconds: the whole seconds in it
num_seconds(span) == IF span >= 0 THEN span \div 2 ELSE 0 - ((0 - span) \div 2)

\* the speeds take_snapshot computes from the last snapshot
speeds(up, down, at, last) ==
    IF last = NoSnapshot THEN <<0, 0>>
    ELSE LET time_diff == num_seconds(at - last.timestamp)
         IN  IF time_diff > 0
             THEN << saturating_sub(up, last.upload_bytes) \div time_diff,
                     saturating_sub(down, last.download_bytes) \div time_diff >>
             ELSE <<0, 0>>

\* take_snapshot(): read the last snapshot, compute the speeds, build the
\* snapshot
TsLast(t) ==
    /\ sctl[t].pc = "ts_last"
    /\ LET sp == speeds(sctl[t].up, sctl[t].down, sctl[t].at, last_snapshot)
       IN  sctl' = [sctl EXCEPT ![t] =
                      [pc |-> "ts_write", arg |-> <<>>, from |-> sctl[t].from,
                       prev |-> last_snapshot,
                       snap |-> [timestamp |-> sctl[t].at,
                                 upload_bytes |-> sctl[t].up,
                                 download_bytes |-> sctl[t].down,
                                 upload_speed |-> sp[1],
                                 download_speed |-> sp[2]]]]
    /\ UNCHANGED <<upload_bytes, download_bytes, snapshots, last_snapshot, now, slog>>
    /\ UNCHANGED OtherThanStats

\* take_snapshot(): *last = Some(snapshot)
TsWrite(t) ==
    /\ sctl[t].pc = "ts_write"
    /\ last_snapshot' = sctl[t].snap
    /\ sctl' = [sctl EXCEPT ![t].pc = "ts_push"]
    /\ UNCHANGED <<upload_bytes, download_bytes, snapshots, now, slog>>
    /\ UNCHANGED OtherThanStats

\* push_back, then pop_front while the deque is longer than max_snapshots
RECURSIVE pop_while_over(_)
pop_while_over(q) == IF Len(q) > MaxSnapshots THEN pop_while_over(Tail(q)) ELSE q

\* a push that evicts the newest snapshot kept instead of the oldest
push_snapshot_drops_newest(q, snap) ==
    IF Len(q) >= MaxSnapshots /\ Len(q) > 0
    THEN SubSeq(q, 1, Len(q) - 1) \o <<snap>>
    ELSE Append(q, snap)

push_snapshot(q, snap) == pop_while_over(Append(q, snap))

\* take_snapshot(): the history is extended and trimmed, the snapshot returned
TsPush(t) ==
    /\ sctl[t].pc = "ts_push"
    /\ UNCHANGED <<upload_bytes, download_bytes, last_snapshot, now>>
    /\ SnapshotsFree
    /\ snapshots' = push_snapshot(snapshots, sctl[t].snap)
    /\ Logged(t, "take_snapshot", sctl[t].prev, sctl[t].snap)
    /\ sctl' = [sctl EXCEPT ![t] = Idle]
    /\ UNCHANGED OtherThanStats

\* get_snapshots(): a copy of the history
GetSnapshots(t) ==
    /\ sctl[t].pc = "get_snapshots"
    /\ UNCHANGED <<upload_bytes, download_bytes, snapshots, last_snapshot, now>>
    /\ SnapshotsFree
    /\ Logged(t, "get_snapshots", <<>>, snapshots)
    /\ sctl' = [sctl EXCEPT ![t] = Idle]
    /\ UNCHANGED OtherThanStats

\* get_current_speeds(): the speeds of the last snapshot, or (0, 0)
GetCurrentSpeeds(t) ==
    /\ sctl[t].pc = "get_current_speeds"
    /\ UNCHANGED <<upload_bytes, download_bytes, snapshots, last_snapshot, now>>
    /\ Logged(t, "get_current_speeds", <<>>,
              IF last_snapshot = NoSnapshot THEN <<0, 0>>
              ELSE <<last_snapshot.upload_speed, last_snapshot.download_speed>>)
    /\ sctl' = [sctl EXCEPT ![t] = Idle]
    /\ UNCHANGED OtherThanStats

\* the steps of the collector's methods
StatsStep(t) ==
    \/ UtUpload(t) \/ UtDownload(t)
    \/ GtUpload(t) \/ GtDownload(t)
    \/ RsUpload(t) \/ RsDownload(t) \/ RsSnapshots(t) \/ RsLast(t)
    \/ TsUpload(t) \/ TsDownload(t) \/ TsLast(t) \/ TsWrite(t) \/ TsPush(t)
    \/ GetSnapshots(t) \/ GetCurrentSpeeds(t)

(* --------------------------- parse_log_line --------------------------- *)
\* a line is a sequence of bytes: a space, the two brackets, a letter, and the
\* two bytes of a character that UTF-8 encodes in two bytes
LineBytes == {" ", "[", "]", "a", "C3", "A9"}

\* valid UTF-8: the lead byte and the continuation byte come as a pair
IsUtf8(l) ==
    /\ \A i \in 1..Len(l) : l[i] = "C3" => (i < Len(l) /\ l[i + 1] = "A9")
    /\ \A i \in 1..Len(l) : l[i] = "A9" => (i > 1 /\ l[i - 1] = "C3")

\* the lines a log reader can get from next_line()
Lines ==
    UNION {{l \in [1..n -> LineBytes] : IsUtf8(l)} : n \in 0..MaxLineLen}

\* str::find(b): the byte offset of the first b, counted from 0, or -1 (None)
find(l, b) ==
    IF \E i \in 1..Len(l) : l[i] = b
    THEN (CHOOSE i \in 1..Len(l) : l[i] = b /\ \A j \in 1..(i - 1) : l[j] # b) - 1
    ELSE -1

\* the bytes of l from offset a up to offset b, b not included
Bytes(l, a, b) == SubSeq(l, a + 1, b)

\* line.splitn(3, ' ').collect(): split at the first two spaces
splitn3(l) ==
    LET i == find(l, " ")
    IN  IF i = -1 THEN <<l>>
        ELSE LET rest == Bytes(l, i + 1, Len(l))
                 j == find(rest, " ")
             IN  IF j = -1 THEN <<Bytes(l, 0, i), rest>>
                 ELSE <<Bytes(l, 0, i), Bytes(rest, 0, j), Bytes(rest, j + 1, Len(rest))>>

\* offset i is a char boundary of l
is_char_boundary(l, i) ==
    \/ i = 0
    \/ i = Len(l)
    \/ i < Len(l) /\ l[i + 1] # "A9"

\* str::trim on a line whose only whitespace is the space
RECURSIVE trim_start(_)
trim_start(l) == IF l # <<>> /\ Head(l) = " " THEN trim_start(Tail(l)) ELSE l
RECURSIVE trim_end(_)
trim_end(l) ==
    IF l # <<>> /\ l[Len(l)] = " " THEN trim_end(SubSeq(l, 1, Len(l) - 1)) ELSE l
trim(l) == trim_end(trim_start(l))

\* the slice &l[a..b] panics unless a <= b <= len and both are char
\* boundaries
Panic == [panic |-> TRUE]
slice_panics(l, a, b) ==
    ~(a <= b /\ b <= Len(l) /\ is_char_boundary(l, a) /\ is_char_boundary(l, b))

\* the level and the timestamp given to a line that carries none
Info == <<"I", "n", "f", "o">>
ClockNow == <<"n", "o", "w">>

\* XrayLogEntry
XrayLogEntry(timestamp, level, message) ==
    [timestamp |-> timestamp, level |-> level, message |-> message]

\* parse_log_line(line): the entry, or Panic when the slice that takes the
\* level panics
parse_log_line(line) ==
    LET parts == splitn3(line)
    IN  IF Len(parts) >= 3
        THEN LET timestamp == parts[1] \o <<" ">> \o parts[2]
                 level_and_msg == parts[3]
                 level_end == find(level_and_msg, "]")
             IN  IF level_end # -1
                 THEN IF slice_panics(level_and_msg, 1, level_end) THEN Panic
                      ELSE XrayLogEntry(timestamp, Bytes(level_and_msg, 1, level_end),
                               trim(Bytes(level_and_msg, level_end + 1,
                                          Len(level_and_msg))))
                 ELSE XrayLogEntry(timestamp, Info, level_and_msg)
        ELSE XrayLogEntry(ClockNow, Info, line)

(* ------------------------------ callers ------------------------------- *)
\* task t calls op, the n-th call of the run at most; the record keeps what
\* get_state reported, the supervisor status, the saved configuration and how
\* many events were published when the call began
InvokeWithin(t, op, a, n) ==
    /\ pc[t] = "idle"
    /\ Len(calls) < n
    /\ calls' = Append(calls, [by |-> t, op |-> op, arg |-> a, at |-> Len(events),
                               state |-> get_state, status |-> status,
                               config |-> config])
    /\ pc' = [pc EXCEPT ![t] = op]
    /\ stack' = [stack EXCEPT ![t] = <<"idle">>]
    /\ res' = [res EXCEPT ![t] = "none"]
    /\ UNCHANGED nstart

\* a call within the MaxOps calls of a run
Invoke(t, op, a) == InvokeWithin(t, op, a, MaxOps)

CallConnect(t, d, m) ==
    /\ Invoke(t, "connect", <<d, m>>)
    /\ arg' = [arg EXCEPT ![t] = <<d, m>>]
    /\ UNCHANGED <<child, attempts, cursor, rx, auxVars>>
    /\ UNCHANGED <<xrayVars, envVars, connVars, rcVars>>

CallDisconnect(t) ==
    /\ Invoke(t, "disconnect", <<>>)
    /\ UNCHANGED <<xrayVars, envVars, connVars, rcVars, locVars>>

CallEnable(t) ==
    /\ Invoke(t, "enable", <<>>)
    /\ UNCHANGED <<xrayVars, envVars, connVars, rcVars, locVars>>

CallDisable(t) ==
    /\ Invoke(t, "disable", <<>>)
    /\ UNCHANGED <<xrayVars, envVars, connVars, rcVars, locVars>>

CallStartAutoReconnect(t) ==
    /\ Invoke(t, "start_auto_reconnect", <<>>)
    /\ UNCHANGED <<xrayVars, envVars, connVars, rcVars, locVars>>

\* start_monitoring_for_reconnect(): subscribe and spawn the monitor task
StartMonitoring(t) ==
    /\ pc[t] = "idle"
    /\ pc[Monitor] = "unborn"
    /\ Len(calls) < MaxOps
    /\ calls' = Append(calls, [by |-> t, op |-> "start_monitoring_for_reconnect",
                               arg |-> <<>>, at |-> Len(events),
                               state |-> get_state, status |-> status,
                               config |-> config])
    /\ cursor' = Len(events)
    /\ pc' = [pc EXCEPT ![Monitor] = "mon_recv"]
    /\ stack' = [stack EXCEPT ![Monitor] = <<>>]
    /\ res' = [res EXCEPT ![t] = "Ok"]
    /\ UNCHANGED <<arg, child, attempts, rx, auxVars, nstart>>
    /\ UNCHANGED <<xrayVars, envVars, connVars, rcVars>>

(* --------------------------- specification ---------------------------- *)
Init ==
    /\ status = "Stopped"
    /\ process_pid = 0
    /\ config = NoConfig
    /\ start_time = FALSE
    /\ health = FALSE
    /\ health_loops = 0
    /\ events = <<>>
    /\ env \in Envs
    /\ proc = [p \in Pids |-> "none"]
    /\ reaper = [p \in Pids |-> "none"]
    /\ hloop = [p \in Pids |-> "unborn"]
    /\ current_connection = NoConn
    /\ history = <<>>
    /\ current_config = NoDescriptor
    /\ reconnect_config \in ReconnectConfigs
    /\ reconnect_cancel_tx = 0
    /\ next_id = 1
    /\ pc = [t \in Tasks |-> IF t \in Callers THEN "idle" ELSE "unborn"]
    /\ stack = [t \in Tasks |-> <<>>]
    /\ res = [t \in Tasks |-> "none"]
    /\ arg = [t \in Tasks |-> NoConfig]
    /\ child = [t \in Tasks |-> 0]
    /\ attempts = [t \in Loops |-> 0]
    /\ cancel_rx = [t \in Loops |-> "empty"]
    /\ cursor = 0
    /\ rx = NoRx
    /\ upload_bytes = 0
    /\ download_bytes = 0
    /\ snapshots = <<>>
    /\ last_snapshot = NoSnapshot
    /\ now = 0
    /\ sctl = [t \in StatsTasks |-> Idle]
    /\ slog = <<>>
    /\ probe = NoProbe
    /\ calls = <<>>
    /\ nstart = [t \in Tasks |-> 0]

\* the steps of XrayCore::start and XrayCore::stop
SupervisorStep(t) ==
    \/ StartCheck(t) \/ StartUpd(t) \/ StartSpawn(t)
    \/ StartPid(t) \/ StartGrace(t) \/ StartTime(t) \/ StartRun(t)
    \/ StopCheck(t) \/ StopUpd(t) \/ StopKill(t) \/ StopClear(t)
    \/ StopDone(t)

\* the steps of connect_with_config_and_mode and disconnect
SessionStep(t) ==
    \/ ConnectCheck(t) \/ ConnectNew(t) \/ ConnectStore(t) \/ ConnectResult(t)
    \/ DisconnectBegin(t) \/ DisconnectMove(t) \/ DisconnectClear(t)

\* the steps of the reconnect API
ReconnectStep(t) ==
    \/ EnableAutoReconnect(t) \/ DisableAutoReconnect(t)
    \/ SarCancel(t) \/ SarEnabled(t) \/ SarConfig(t) \/ SarSpawn(t)

\* the steps of a spawned reconnect loop
LoopStep(t) ==
    \/ LoopRead(t) \/ LoopCheck(t) \/ LoopSleep(t) \/ LoopCancel(t)
    \/ LoopConfig(t) \/ LoopResult(t)

\* the application thread calls the API; reconnect loops, the monitor, the
\* engine processes and their reapers run beside it
Next ==
    \/ \E t \in Tasks : SupervisorStep(t) \/ SessionStep(t) \/ ReconnectStep(t)
    \/ \E t \in Loops : LoopStep(t)
    \/ MonitorRecv(Monitor)
    \/ MonitorLagged(Monitor)
    \/ \E p \in Pids : ProcessExit(p) \/ Reaper(p)
    \/ \E t \in Callers :
         \/ \E a \in ConnectArgs : CallConnect(t, a[1], a[2])
         \/ CallDisconnect(t) \/ CallEnable(t) \/ CallDisable(t)
         \/ CallStartAutoReconnect(t) \/ StartMonitoring(t)

Spec == Init /\ [][Next]_vars

\* connect and disconnect alone: no reconnect loop and no monitor is started
NextSession ==
    \/ \E t \in Callers : SupervisorStep(t) \/ SessionStep(t)
    \/ \E p \in Pids : ProcessExit(p) \/ Reaper(p)
    \/ \E t \in Callers :
         \/ \E a \in ConnectArgs : CallConnect(t, a[1], a[2])
         \/ CallDisconnect(t)

\* connect and disconnect never read the reconnect configuration
InitSession == Init /\ reconnect_config = disabled

SpecSession == InitSession /\ [][NextSession]_vars

\* the retry scenario: one connect, then one start_auto_reconnect, on a host
\* where every start() fails; nothing else is called. The runtime schedules the
\* spawned loop and fires its timers, so the loop's steps are weakly fair
InitRetry == Init /\ env # "ok"

RetryLoopStep(t) ==
    \/ LoopRead(t) \/ LoopCheck(t) \/ LoopSleep(t) \/ LoopConfig(t) \/ LoopResult(t)
    \/ StartCheck(t) \/ StartUpd(t) \/ StartSpawn(t)

NextRetry ==
    \/ \E t \in Loops : RetryLoopStep(t)
    \/ \E t \in Callers :
         \/ StartCheck(t) \/ StartUpd(t) \/ StartSpawn(t)
         \/ ConnectCheck(t) \/ ConnectNew(t) \/ ConnectStore(t) \/ ConnectResult(t)
         \/ SarCancel(t) \/ SarEnabled(t) \/ SarConfig(t) \/ SarSpawn(t)
         \/ calls = <<>> /\ \E a \in ConnectArgs : CallConnect(t, a[1], a[2])
         \/ Len(calls) = 1 /\ CallStartAutoReconnect(t)

SpecRetry ==
    InitRetry /\ [][NextRetry]_vars /\ WF_vars(\E t \in Loops : RetryLoopStep(t))

\* the orphaned-loop scenario: connect, start_auto_reconnect, disconnect, and
\* then one more disconnect, whatever MaxOps is; the engine does not die on its
\* own
CallDisconnectAgain(t) ==
    /\ InvokeWithin(t, "disconnect", <<>>, Len(calls) + 1)
    /\ UNCHANGED <<xrayVars, envVars, connVars, rcVars, locVars>>

NextOrphan ==
    \/ \E t \in Tasks : SupervisorStep(t) \/ SessionStep(t)
    \/ \E t \in Callers : SarCancel(t) \/ SarEnabled(t) \/ SarConfig(t) \/ SarSpawn(t)
    \/ \E t \in Loops :
         \/ LoopRead(t) \/ LoopCheck(t) \/ LoopSleep(t)
         \/ LoopConfig(t) \/ LoopResult(t)
    \/ \E p \in Pids : Reaper(p)
    \/ \E t \in Callers :
         \/ calls = <<>> /\ \E a \in ConnectArgs : CallConnect(t, a[1], a[2])
         \/ Len(calls) = 1 /\ CallStartAutoReconnect(t)
         \/ Len(calls) = 2 /\ CallDisconnect(t)
         \/ Len(calls) = 3 /\ CallDisconnectAgain(t)

SpecOrphan == Init /\ [][NextOrphan]_vars

\* the supervisor driven directly: start, stop and restart are called one
\* after another; the engine processes, their reapers and the health-check
\* loops run beside the caller
CallStart(t, cfg) ==
    /\ Invoke(t, "start", cfg)
    /\ arg' = [arg EXCEPT ![t] = cfg]
    /\ UNCHANGED <<child, attempts, cursor, rx, auxVars>>
    /\ UNCHANGED <<xrayVars, envVars, connVars, rcVars>>

CallStop(t) ==
    /\ Invoke(t, "stop", <<>>)
    /\ UNCHANGED <<xrayVars, envVars, connVars, rcVars, locVars>>

CallRestart(t) ==
    /\ Invoke(t, "restart", <<>>)
    /\ UNCHANGED <<xrayVars, envVars, connVars, rcVars, locVars>>

RestartStep(t) == RestartRead(t) \/ RestartStopped(t) \/ RestartDone(t)

NextSupervisor ==
    \/ \E t \in Callers : SupervisorStep(t) \/ RestartStep(t)
    \/ \E p \in Pids : ProcessExit(p) \/ Reaper(p) \/ HealthRead(p) \/ HealthWrite(p)
    \/ \E t \in Callers :
         \/ \E cfg \in ConnectArgs : CallStart(t, cfg)
         \/ CallStop(t) \/ CallRestart(t)

SpecSupervisor == InitSession /\ [][NextSupervisor]_vars

\* subscribe(): a new receiver, positioned after everything sent so far
Subscribe ==
    /\ ~rx.on
    /\ rx' = [on |-> TRUE, since |-> Len(events), pos |-> Len(events),
              got |-> <<>>, lagged |-> 0]
    /\ UNCHANGED <<arg, child, attempts, cursor, auxVars>>
    /\ UNCHANGED <<xrayVars, envVars, connVars, rcVars, ctlVars, histVars>>

\* recv() on the receiver: the next event, or Lagged when more than the
\* channel keeps were sent since the last recv, which moves the receiver to
\* the oldest event still kept
RxRecv ==
    /\ rx.on
    /\ rx.pos < Len(events)
    /\ IF Len(events) - rx.pos > BusCapacity
       THEN rx' = [rx EXCEPT !.pos = Len(events) - BusCapacity, !.lagged = @ + 1]
       ELSE rx' = [rx EXCEPT !.pos = @ + 1,
                             !.got = Append(@, [at |-> rx.pos + 1,
                                                event |-> events[rx.pos + 1]])]
    /\ UNCHANGED <<arg, child, attempts, cursor, auxVars>>
    /\ UNCHANGED <<xrayVars, envVars, connVars, rcVars, ctlVars, histVars>>

\* the supervisor driven by start and stop while a receiver of its event bus
\* reads at its own pace
NextBus ==
    \/ \E t \in Callers : SupervisorStep(t)
    \/ \E p \in Pids : ProcessExit(p) \/ Reaper(p)
    \/ Subscribe
    \/ RxRecv
    \/ \E t \in Callers : (\E cfg \in ConnectArgs : CallStart(t, cfg)) \/ CallStop(t)

SpecBus == InitSession /\ [][NextBus]_vars

CallIncrement(t) ==
    /\ Invoke(t, "increment_reconnect_attempts", <<>>)
    /\ UNCHANGED <<xrayVars, envVars, connVars, rcVars, locVars>>

\* connect and disconnect, and the counter helper called by the application
NextCounter ==
    \/ \E t \in Callers : SupervisorStep(t) \/ SessionStep(t) \/ IncrementReconnectAttempts(t)
    \/ \E p \in Pids : ProcessExit(p) \/ Reaper(p)
    \/ \E t \in Callers :
         \/ \E a \in ConnectArgs : CallConnect(t, a[1], a[2])
         \/ CallDisconnect(t)
         \/ CallIncrement(t)

SpecCounter == InitSession /\ [][NextCounter]_vars

\* the strategies the ReconnectConfig methods are called with
Strategies ==
    {Disabled, Immediate, FixedDelay(3), ExponentialBackoff(1, 60, 2)}

\* the configurations the ReconnectConfig methods are called on: any strategy,
\* any limit, enabled or not (the fields are public)
PolicyConfigs ==
    [strategy : Strategies, max_attempts : 0..MaxLimit, enabled : BOOLEAN]

\* a call of should_reconnect(current_attempts) on a configuration, the one
\* method call of the run
ShouldReconnectCall ==
    /\ probe = NoProbe
    /\ \E cfg \in PolicyConfigs, n \in 0..(MaxLimit + 1) :
         probe' = [fn |-> "should_reconnect", cfg |-> cfg, attempt |-> n,
                   out |-> should_reconnect(cfg, n)]
    /\ UNCHANGED <<xrayVars, envVars, connVars, rcVars, ctlVars, histVars>>
    /\ UNCHANGED <<arg, child, attempts, cursor, rx, statsVars>>

\* a call of calculate_delay(attempt) on a configuration
CalculateDelayCall ==
    /\ probe = NoProbe
    /\ \E cfg \in PolicyConfigs, n \in 0..(2 ^ AttemptBits - 1) :
         probe' = [fn |-> "calculate_delay", cfg |-> cfg, attempt |-> n,
                   out |-> calculate_delay(cfg, n)]
    /\ UNCHANGED <<xrayVars, envVars, connVars, rcVars, ctlVars, histVars>>
    /\ UNCHANGED <<arg, child, attempts, cursor, rx, statsVars>>

NextPolicy == ShouldReconnectCall \/ CalculateDelayCall

SpecPolicy == InitSession /\ [][NextPolicy]_vars

\* a collector method is called: the writer updates and takes snapshots, the
\* resetter resets, the reader reads
CallStats(t, entry, a) ==
    /\ StatsCall(t, entry, a)
    /\ UNCHANGED <<upload_bytes, download_bytes, snapshots, last_snapshot, now, slog>>
    /\ UNCHANGED OtherThanStats

\* the traffic collector used by three tasks at once
NextStats ==
    \/ \E t \in StatsTasks : StatsStep(t)
    \/ \E a \in Deltas : CallStats("writer", "ut_upload", a)
    \/ CallStats("writer", "ts_upload", <<>>)
    \/ CallStats("resetter", "rs_upload", <<>>)
    \/ CallStats("reader", "gt_upload", <<>>)
    \/ CallStats("reader", "get_snapshots", <<>>)
    \/ CallStats("reader", "get_current_speeds", <<>>)

\* the collector sees neither the engine nor the host
InitStats == InitSession /\ env = "ok"

SpecStats == InitStats /\ [][NextStats]_vars

\* the steps of update_traffic, take_snapshot and reset
SpeedStep(t) ==
    \/ UtUpload(t) \/ UtDownload(t)
    \/ RsUpload(t) \/ RsDownload(t) \/ RsSnapshots(t) \/ RsLast(t)
    \/ TsUpload(t) \/ TsDownload(t) \/ TsLast(t) \/ TsWrite(t) \/ TsPush(t)

\* snapshots taken while traffic is counted, the clock advances and the
\* collector is reset
NextSpeeds ==
    \/ \E t \in StatsTasks : SpeedStep(t)
    \/ Tick
    \/ \E a \in Deltas : CallStats("writer", "ut_upload", a)
    \/ CallStats("writer", "ts_upload", <<>>)
    \/ CallStats("resetter", "rs_upload", <<>>)

SpecSpeeds == InitStats /\ [][NextSpeeds]_vars

\* the current_connection lock is not held by an update_stats in progress
ConnectionFree == \A t \in StatsTasks : sctl[t].pc \notin {"ut_upload", "ut_download"}

\* one connect and one disconnect by the caller while another task reports
\* traffic with update_stats
NextTraffic ==
    \/ \E t \in Callers : SupervisorStep(t) \/ (ConnectionFree /\ SessionStep(t))
    \/ UpdateStatsConn("writer") \/ UtUpload("writer") \/ UtDownload("writer")
    \/ \E a \in Deltas : CallStats("writer", "us_conn", a)
    \/ \E t \in Callers :
         \/ calls = <<>> /\ CallConnect(t, "A", "global")
         \/ Len(calls) = 1 /\ CallDisconnect(t)

SpecTraffic == InitStats /\ [][NextTraffic]_vars

\* the record that disconnect() left in history for the connection with id i
PastRecord(i) ==
    [Connection(i, "A") EXCEPT !.state = "Disconnected"]

\* an orchestrator that has been through HistoryCapacity - 1 or
\* HistoryCapacity connections already: its history is nearly full or full
InitLongHistory ==
    /\ status = "Stopped"
    /\ process_pid = 0
    /\ config = NoConfig
    /\ start_time = FALSE
    /\ health = FALSE
    /\ health_loops = 0
    /\ events = <<>>
    /\ env = "ok"
    /\ proc = [p \in Pids |-> "none"]
    /\ reaper = [p \in Pids |-> "none"]
    /\ hloop = [p \in Pids |-> "unborn"]
    /\ current_connection = NoConn
    /\ \E n \in {HistoryCapacity - 1, HistoryCapacity} :
         /\ history = [i \in 1..n |-> PastRecord(i)]
         /\ next_id = n + 1
    /\ current_config = NoDescriptor
    /\ reconnect_config = disabled
    /\ reconnect_cancel_tx = 0
    /\ pc = [t \in Tasks |-> IF t \in Callers THEN "idle" ELSE "unborn"]
    /\ stack = [t \in Tasks |-> <<>>]
    /\ res = [t \in Tasks |-> "none"]
    /\ arg = [t \in Tasks |-> NoConfig]
    /\ child = [t \in Tasks |-> 0]
    /\ attempts = [t \in Loops |-> 0]
    /\ cancel_rx = [t \in Loops |-> "empty"]
    /\ cursor = 0
    /\ rx = NoRx
    /\ upload_bytes = 0
    /\ download_bytes = 0
    /\ snapshots = <<>>
    /\ last_snapshot = NoSnapshot
    /\ now = 0
    /\ sctl = [t \in StatsTasks |-> Idle]
    /\ slog = <<>>
    /\ probe = NoProbe
    /\ calls = <<>>
    /\ nstart = [t \in Tasks |-> 0]

\* connect and disconnect on an orchestrator with a long history
SpecLongHistory == InitLongHistory /\ [][NextSession]_vars

\* the monitored session: start_monitoring_for_reconnect, then connect and
\* disconnect, while the engine writes log lines and the monitor task reads
\* the bus at its own pace
NextLag ==
    \/ \E t \in Callers : SupervisorStep(t) \/ SessionStep(t)
    \/ \E p \in Pids : Reaper(p) \/ LogLine(p)
    \/ MonitorRecv(Monitor)
    \/ MonitorLagged(Monitor)
    \/ \E t \in Callers :
         \/ calls = <<>> /\ StartMonitoring(t)
         \/ calls # <<>> /\ CallConnect(t, "A", "global")
         \/ calls # <<>> /\ CallDisconnect(t)

SpecLag == InitStats /\ [][NextLag]_vars

\* the current_connection lock is free: no update_stats holds it while it
\* waits for the collector, and no disconnect holds it while it clears the
\* stored descriptor
ConnectionLockFree == ConnectionFree /\ \A t \in Tasks : pc[t] # "d_clear"

\* the steps of connect, disconnect and the reconnect API, each step that
\* locks current_connection waiting for the lock
LockedSessionStep(t) ==
    \/ /\ ConnectionLockFree
       /\ \/ ConnectCheck(t) \/ ConnectNew(t) \/ ConnectResult(t)
          \/ DisconnectBegin(t) \/ DisconnectMove(t)
    \/ ConnectStore(t) \/ DisconnectClear(t)
    \/ ReconnectStep(t)
    \/ SupervisorStep(t)

\* the steps of a reconnect loop, waiting for the lock likewise
LockedLoopStep(t) ==
    \/ ConnectionLockFree /\ (LoopRead(t) \/ LoopSleep(t) \/ LoopResult(t))
    \/ LoopCheck(t) \/ LoopCancel(t) \/ LoopConfig(t)
    \/ StartCheck(t) \/ StartUpd(t) \/ StartSpawn(t)
    \/ StartPid(t) \/ StartGrace(t) \/ StartTime(t) \/ StartRun(t)

\* the steps of update_stats (with its update_traffic), take_snapshot and
\* reset
LockedStatsStep(t) ==
    \/ ConnectionLockFree /\ UpdateStatsConn(t)
    \/ UtUpload(t) \/ UtDownload(t)
    \/ TsUpload(t) \/ TsDownload(t) \/ TsLast(t) \/ TsWrite(t) \/ TsPush(t)
    \/ RsUpload(t) \/ RsDownload(t) \/ RsSnapshots(t) \/ RsLast(t)

\* collector task t has not called op yet
NotCalled(t, op) == \A i \in 1..Len(slog) : ~(slog[i].by = t /\ slog[i].op = op)

\* the first call of the application, connect, has returned
ConnectReturned ==
    /\ calls # <<>>
    /\ Len(calls) = 1 => \A t \in Callers : pc[t] = "idle"

\* everything at once: the application connects, then enables, disables or
\* starts auto-reconnect, then disconnects or disables; from the return of
\* connect on a second task reports traffic with update_stats and then takes
\* a snapshot, and a third resets the collector, while the reconnect loop runs
NextLocks ==
    \/ \E t \in Callers : LockedSessionStep(t)
    \/ \E t \in Loops : LockedLoopStep(t)
    \/ \E t \in {"writer", "resetter"} : LockedStatsStep(t)
    \/ \E t \in Callers :
         \/ calls = <<>> /\ CallConnect(t, "A", "global")
         \/ Len(calls) = 1 /\ (CallStartAutoReconnect(t) \/ CallEnable(t) \/ CallDisable(t))
         \/ Len(calls) = 2 /\ (CallDisconnect(t) \/ CallDisable(t))
    \/ /\ ConnectReturned
       /\ NotCalled("writer", "update_traffic")
       /\ CallStats("writer", "us_conn", <<1, 2>>)
    \/ /\ ~NotCalled("writer", "update_traffic")
       /\ NotCalled("writer", "take_snapshot")
       /\ CallStats("writer", "ts_upload", <<>>)
    \/ /\ ConnectReturned
       /\ NotCalled("resetter", "reset")
       /\ CallStats("resetter", "rs_upload", <<>>)

\* a healthy host, auto-reconnect enabled with one attempt
InitLocks == Init /\ env = "ok" /\ reconnect_config = immediate(1)

\* the runtime schedules every task that can take a step: a task that waits
\* for a lock gets it once it is free
SpecLocks ==
    /\ InitLocks
    /\ [][NextLocks]_vars
    /\ \A t \in Callers : WF_vars(LockedSessionStep(t))
    /\ \A t \in Loops : WF_vars(LockedLoopStep(t))
    /\ \A t \in {"writer", "resetter"} : WF_vars(LockedStatsStep(t))

\* a log reader of monitor_logs gets a line and parses it, the one line of
\* the run: the entry is sent as LogReceived, a panic ends the reader task
ParseLogLineCall ==
    /\ probe = NoProbe
    /\ \E line \in Lines :
         LET out == parse_log_line(line)
         IN  /\ probe' = [fn |-> "parse_log_line", line |-> line, out |-> out]
             /\ events' = IF out = Panic THEN events ELSE Append(events, LogReceived)
    /\ UNCHANGED <<status, process_pid, config, start_time, health, health_loops>>
    /\ UNCHANGED <<envVars, connVars, rcVars, ctlVars, histVars>>
    /\ UNCHANGED <<arg, child, attempts, cursor, rx, statsVars>>

NextParse == ParseLogLineCall

SpecParse == InitStats /\ [][NextParse]_vars

(* ----------------------------- properties ----------------------------- *)
\* the statuses of the events published after the first n
StatusesSince(n) == [i \in 1..(Len(events) - n) |-> events[n + i].status]

\* the latest API call, and whether it has returned
LastCall == calls[Len(calls)]
LastCallReturned(op) ==
    /\ calls # <<>>
    /\ LastCall.op = op
    /\ pc[LastCall.by] = "idle"

\* the live connection is in state s
LiveIn(s) == current_connection # NoConn /\ current_connection.state = s

\* auto-reconnect is enabled: the flag is set and the strategy is not Disabled
AutoReconnectEnabled ==
    reconnect_config.enabled /\ reconnect_config.strategy # Disabled

\* loop t leaves select! through the sleep branch: it begins a start attempt
BeginsAttempt(t) == pc[t] = "lp_select" /\ pc'[t] = "lp_config"

\* C1, as the specification states it: connect(A) followed by connect(B) with
\* no disconnect call in between puts exactly one disconnect-then-connect cycle
\* of status events on the bus (Stopping, Stopped, Starting, and Running when
\* B's start succeeds), leaves B as the live connection, Connected (Error when
\* B's start failed), and A as the latest history record, Disconnected; no
\* history record is Connected. Runs in which an engine died on its own are
\* left out.
C1_OneCycle ==
    LET n == Len(calls) IN
    ( /\ n >= 2
      /\ calls[n - 1].op = "connect"
      /\ LastCallReturned("connect")
      /\ \A p \in Pids : proc[p] # "exited" )
    => /\ StatusesSince(calls[n].at) =
            IF res[calls[n].by] = "Ok"
            THEN <<"Stopping", "Stopped", "Starting", "Running">>
            ELSE <<"Stopping", "Stopped", "Starting">>
       /\ current_connection # NoConn
       /\ current_connection.desc = calls[n].arg[1]
       /\ current_connection.state =
            IF res[calls[n].by] = "Ok" THEN "Connected" ELSE "Error"
       /\ history # <<>>
       /\ history[Len(history)].desc = calls[n - 1].arg[1]
       /\ history[Len(history)].state = "Disconnected"
       /\ \A i \in 1..Len(history) : history[i].state # "Connected"

\* C2, as the specification states it: in every reachable state a live
\* Connection in state Connected implies that the supervisor status is Running
C2_ConnectedImpliesRunning == LiveIn("Connected") => status = "Running"

\* C3, as the specification states it: whenever start() has returned an error
\* to connect or to the reconnect loop, the supervisor status is Error and a
\* StatusChanged(Error) event has been published
C3_StartErrorPublished ==
    \A t \in Tasks :
      (pc[t] \in {"c_result", "lp_result"} /\ res[t] # "Ok")
      => /\ status = "Error"
         /\ \E i \in 1..Len(events) : events[i].status = "Error"

\* C4, as the specification states it: after start_monitoring_for_reconnect(),
\* with auto-reconnect enabled and a live connection still Connected, once the
\* monitor has received the StatusChanged(Stopped) of an engine that died on
\* its own, a reconnect loop has been started
C4_DeathStartsLoop ==
    ( /\ Len(calls) = 2
      /\ calls[1].op = "connect"
      /\ calls[2].op = "start_monitoring_for_reconnect"
      /\ AutoReconnectEnabled
      /\ LiveIn("Connected")
      /\ \E i \in (calls[2].at + 1)..Len(events) :
            events[i] = StatusChanged("Stopped", "reaper")
      /\ pc[Monitor] = "mon_recv"
      /\ cursor = Len(events) )
    => \E l \in Loops : pc[l] # "unborn"

\* C5, as the specification states it: once disable_auto_reconnect() has
\* returned (and nothing was called since), no reconnect loop begins a new
\* start attempt and reconnect_attempts does not increase
C5_NoAttemptAfterDisable ==
    [][ LastCallReturned("disable")
        => /\ \A t \in Loops : ~BeginsAttempt(t)
           /\ (current_connection # NoConn /\ current_connection' # NoConn)
              => current_connection'.reconnect_attempts
                   <= current_connection.reconnect_attempts ]_vars

\* C6, as the specification states it: once a later start_auto_reconnect() has
\* returned, every reconnect loop but the one it registered begins no further
\* start attempt
C6_EarlierLoopStops ==
    [][ LastCallReturned("start_auto_reconnect")
        => \A t \in Loops :
             t # <<"loop", reconnect_cancel_tx>> => ~BeginsAttempt(t) ]_vars

\* the case of C7: connect, then start_auto_reconnect, with every start
\* failing, auto-reconnect enabled and max_attempts > 0
C7_Case ==
    /\ Len(calls) = 2
    /\ calls[1].op = "connect"
    /\ calls[2].op = "start_auto_reconnect"
    /\ env # "ok"
    /\ AutoReconnectEnabled
    /\ reconnect_config.max_attempts > 0

C7_Finished(l) ==
    /\ pc[l] = "lp_done"
    /\ nstart[l] = reconnect_config.max_attempts
    /\ LiveIn("Error")
    /\ current_connection.reconnect_attempts = reconnect_config.max_attempts

C8_SuccessEndsLoop ==
    [][ \A t \in Loops :
          /\ (pc[t] = "lp_result" /\ res[t] = "Ok" /\ pc'[t] # "lp_result")
             => /\ pc'[t] = "lp_done"
                /\ current_connection # NoConn
                   => /\ current_connection' # NoConn
                      /\ current_connection'.reconnect_attempts = 0
                      /\ current_connection'.state = "Connected"
                      /\ current_connection'.last_error = ""
          /\ pc[t] = "lp_done"
             => pc'[t] = "lp_done" /\ nstart'[t] = nstart[t] ]_vars

\* C8's case has happened: connect failed because the engine exited within the
\* grace interval, the loop's first attempt succeeded and cleared the error
C8_Witness ==
    /\ Len(calls) = 2
    /\ calls[1].op = "connect"
    /\ calls[2].op = "start_auto_reconnect"
    /\ \E p \in Pids : proc[p] = "exited" /\ reaper[p] = "none"
    /\ pc[<<"loop", 1>>] = "lp_done"
    /\ res[<<"loop", 1>>] = "Ok"
    /\ nstart[<<"loop", 1>>] = 1
    /\ LiveIn("Connected")
    /\ current_connection.reconnect_attempts = 0
    /\ current_connection.last_error = ""

\* C9: when start fails during connect, connect returns an error and leaves
\* the live Connection in Error(reason) with last_error set; when connect has
\* returned the error no reconnect loop exists, no cancellation sender is
\* stored, and every connect so far issued exactly one start
C9_ConnectFailure ==
    /\ [][ \A t \in Callers :
             (pc[t] = "c_result" /\ res[t] # "Ok" /\ pc'[t] # "c_result")
             => /\ pc'[t] = "idle"
                /\ res'[t] = "Err"
                /\ current_connection' # NoConn
                /\ current_connection'.state = "Error"
                /\ current_connection'.reason = res[t]
                /\ current_connection'.last_error = res[t] ]_vars
    /\ [](\A t \in Callers :
            (LastCallReturned("connect") /\ LastCall.by = t /\ res[t] = "Err")
            => /\ LiveIn("Error")
               /\ current_connection.desc = LastCall.arg[1]
               /\ current_connection.last_error # ""
               /\ \A l \in Loops : pc[l] = "unborn"
               /\ reconnect_cancel_tx = 0
               /\ nstart[t] = Cardinality({i \in 1..Len(calls) :
                                              calls[i].op = "connect"}))

\* C9's case has happened: a connect on a host without the engine binary has
\* returned its error
C9_Witness ==
    /\ LastCallReturned("connect")
    /\ res[LastCall.by] = "Err"
    /\ LiveIn("Error")
    /\ current_connection.last_error = "NotFound"
    /\ nstart[LastCall.by] = 1

\* C10, as the specification states it: while auto-reconnect is disabled and
\* the caller is in no call, a live Connection in state Error is left as it
\* is and no background task issues a start
C10_ErrorStaysWhileDisabled ==
    [][ ( /\ ~AutoReconnectEnabled
          /\ LiveIn("Error")
          /\ \A t \in Callers : pc[t] = "idle" )
        => /\ current_connection' = current_connection
           /\ \A t \in Loops \cup {Monitor} :
                nstart'[t] = nstart[t] /\ ~BeginsAttempt(t) ]_vars

\* C11, as the specification states it: once a start attempt of a reconnect
\* loop has failed with NotFound (engine binary missing), that loop begins no
\* further start attempt
C11_NotFoundNotRetried ==
    [][ \A t \in Loops : res[t] = "NotFound" => ~BeginsAttempt(t) ]_vars

\* C12: the step of disconnect() that empties the live slot appends the live
\* connection, in state Disconnected, to history (nothing when there was none)
\* and no other step changes history; when disconnect() has returned it
\* returned Ok, the live slot and the stored descriptor are empty, get_state
\* reports Disconnected and history holds exactly one record, Disconnected,
\* of every connection created so far
C12_DisconnectCompletes ==
    /\ [][ /\ \A t \in Callers :
                (pc[t] = "d_move" /\ pc'[t] # "d_move")
                => /\ current_connection' = NoConn
                   /\ history' =
                        IF current_connection = NoConn THEN history
                        ELSE Append(history, [current_connection EXCEPT
                                                 !.state = "Disconnected"])
           /\ history' # history => \E t \in Callers : pc[t] = "d_move" ]_vars
    /\ [](LastCallReturned("disconnect")
          => /\ res[LastCall.by] = "Ok"
             /\ current_connection = NoConn
             /\ current_config = NoDescriptor
             /\ get_state = "Disconnected"
             /\ Len(history) = next_id - 1
             /\ \A i \in 1..Len(history) :
                  history[i].id = i /\ history[i].state = "Disconnected")

\* C12's case has happened: a disconnect of a Connected connection returned
C12_Witness ==
    /\ LastCallReturned("disconnect")
    /\ Len(calls) = 2
    /\ calls[1].op = "connect"
    /\ res[LastCall.by] = "Ok"
    /\ status = "Stopped"
    /\ current_connection = NoConn
    /\ Len(history) = 1
    /\ history[1].desc = calls[1].arg[1]
    /\ history[1].state = "Disconnected"
    /\ \E p \in Pids : proc[p] = "killed"

\* C13, as the specification states it: a disconnect() called while get_state
\* reports Disconnected changes neither history, live slot, stored descriptor
\* nor supervisor status, publishes no event and returns Ok
C13_DisconnectNoOp ==
    [][ \A t \in Callers :
          ( /\ calls # <<>>
            /\ LastCall.by = t
            /\ LastCall.op = "disconnect"
            /\ LastCall.state = "Disconnected"
            /\ pc[t] # "idle"
            /\ pc'[t] # pc[t] )
          => /\ history' = history
             /\ current_connection' = current_connection
             /\ current_config' = current_config
             /\ status' = status
             /\ events' = events
             /\ pc'[t] = "idle" => res'[t] = "Ok" ]_vars

\* the edges of the status machine the specification draws
StatusEdges ==
    { <<"Stopped", "Starting">>, <<"Starting", "Running">>,
      <<"Running", "Stopping">>, <<"Stopping", "Stopped">> }

\* C14, as the specification states it: under any sequence of start, stop and
\* restart calls every change of the supervisor status follows one of the
\* edges Stopped->Starting, Starting->Running, Running->Stopping,
\* Stopping->Stopped or is a step into Error, and Error is left only by a step
\* of start
C14_StatusEdges ==
    [][ status' # status
        => /\ <<status, status'>> \in StatusEdges \/ status' = "Error"
           /\ status = "Error" => \E t \in Tasks : pc[t] = "st_upd" ]_vars

\* C15: the step of start(config) that finds the status Running returns Ok
\* to its caller and changes neither status, PID, saved configuration, start
\* time nor health info, spawns no process and publishes no event
C15_StartOnRunningNoOp ==
    [][ \A t \in Tasks :
          (pc[t] = "start" /\ status = "Running" /\ pc'[t] # "start")
          => /\ pc'[t] = Head(stack[t])
             /\ res'[t] = "Ok"
             /\ xrayVars' = xrayVars
             /\ proc' = proc ]_vars

\* C15's case has happened: a second start, with another configuration, has
\* returned Ok on the running supervisor and left everything as it was
C15_Witness ==
    /\ Len(calls) = 2
    /\ calls[1].op = "start" /\ calls[2].op = "start"
    /\ calls[1].arg # calls[2].arg
    /\ LastCallReturned("start")
    /\ res[LastCall.by] = "Ok"
    /\ nstart[LastCall.by] = 2
    /\ status = "Running"
    /\ config = calls[1].arg
    /\ process_pid = 1
    /\ proc = [p \in Pids |-> IF p = 1 THEN "alive" ELSE "none"]
    /\ Len(events) = calls[2].at

\* the statuses of the events that the code in `by` published after the first n
StatusesBySince(by, n) ==
    LET RECURSIVE from(_)
        from(i) == IF i > Len(events) THEN <<>>
                   ELSE IF events[i].by \in by THEN <<events[i].status>> \o from(i + 1)
                   ELSE from(i + 1)
    IN  from(n + 1)

\* what C16 says of a stop() besides the health info: called on a supervisor
\* that is not Stopped it has published Stopping and then Stopped when it
\* returns, and the status is Stopped, the PID None and the start time None
C16_StopEffect ==
    \A t \in Callers :
      ( /\ calls # <<>> /\ LastCall.by = t /\ LastCall.op = "stop"
        /\ LastCall.status # "Stopped"
        /\ pc[t] = "sp_done" /\ pc'[t] = "idle" )
      => /\ StatusesBySince({"stop"}, LastCall.at)' = <<"Stopping", "Stopped">>
         /\ res'[t] = "Ok"
         /\ status' = "Stopped"
         /\ process_pid' = 0
         /\ start_time' = FALSE

\* C16, as the specification states it: stop() on a supervisor that is not
\* Stopped publishes StatusChanged(Stopping) and then StatusChanged(Stopped),
\* and when it returns the status is Stopped and the PID, the health info and
\* the start time are cleared
C16_StopClearsAll ==
    [][ /\ C16_StopEffect
        /\ \A t \in Callers :
             ( /\ calls # <<>> /\ LastCall.by = t /\ LastCall.op = "stop"
               /\ LastCall.status # "Stopped"
               /\ pc[t] = "sp_done" /\ pc'[t] = "idle" )
             => health' = FALSE ]_vars

\* a restart() is the last call, made by t, and is returning now
RestartReturns(t) ==
    /\ calls # <<>> /\ LastCall.by = t /\ LastCall.op = "restart"
    /\ pc[t] # "idle" /\ pc'[t] = "idle"

\* the start(C) that a restart() of t made is returning to it now
RestartStartReturns(t) ==
    /\ calls # <<>> /\ LastCall.by = t /\ LastCall.op = "restart"
    /\ pc[t] # "rs_done" /\ pc'[t] = "rs_done"

\* C17: restart() with no saved configuration changes no supervisor state and
\* publishes no event; with a saved configuration C it performs stop() and then
\* start(C), so that when it succeeds the status is Running and the saved
\* configuration is still C
C17_Restart ==
    [][ \A t \in Callers :
          /\ ( /\ calls # <<>> /\ LastCall.by = t /\ LastCall.op = "restart"
               /\ LastCall.config = NoConfig /\ pc[t] # "idle" )
             => /\ xrayVars' = xrayVars
                /\ proc' = proc
                /\ pc'[t] = "idle" => res'[t] = "Ok"
          /\ ( /\ RestartStartReturns(t) /\ res'[t] = "Ok" )
             => /\ LastCall.config # NoConfig
                /\ status' = "Running"
                /\ config' = LastCall.config
          /\ ( /\ RestartReturns(t) /\ LastCall.config # NoConfig /\ res'[t] = "Ok" )
             => /\ config' = LastCall.config
                /\ StatusesBySince({"stop", "start"}, LastCall.at)'
                     = (IF LastCall.status = "Stopped" THEN <<>>
                        ELSE <<"Stopping", "Stopped">>) \o <<"Starting", "Running">> ]_vars

\* a restart with nothing saved has returned, then a start succeeded, and a
\* restart of the running engine has returned Ok with a new process
C17_Witness ==
    /\ Len(calls) = 3
    /\ calls[1].op = "restart" /\ calls[1].config = NoConfig
    /\ calls[2].op = "start"
    /\ calls[3].op = "restart" /\ calls[3].config = calls[2].arg
    /\ calls[3].status = "Running"
    /\ LastCallReturned("restart")
    /\ res[calls[3].by] = "Ok"
    /\ nstart[calls[3].by] = 2
    /\ status = "Running" /\ config = calls[2].arg /\ process_pid = 2

\* C18: the health info is absent whenever the supervisor is Stopped: once
\* stop() has cleared it and published Stopped, get_health stays None until a
\* later start, however the health-check loop is interleaved
C18_NoHealthWhenStopped == status = "Stopped" => health = FALSE

\* the steps of start() and stop() that call update_status
Publishing == {"st_upd", "st_run", "sp_upd", "sp_done"}

\* C19: what a subscriber has received is a subsequence, in publish order, of
\* the events published after it subscribed; and a publish never blocks or
\* fails the supervisor, with no subscriber or with a subscriber more than
\* the bus capacity behind: the publishing step can always be taken, and
\* stop() returns Ok
C19_BusOrderAndNoBlocking ==
    /\ \A i \in 1..Len(rx.got) :
         /\ rx.got[i].at > rx.since
         /\ rx.got[i].at <= Len(events)
         /\ rx.got[i].event = events[rx.got[i].at]
         /\ i > 1 => rx.got[i - 1].at < rx.got[i].at
    /\ \A t \in Callers : pc[t] \in Publishing => ENABLED SupervisorStep(t)
    /\ LastCallReturned("stop") => res[LastCall.by] = "Ok"

\* events were published before anybody subscribed; the subscriber then fell
\* more than the bus capacity behind, got Lagged, and has received an event
\* since; a publish is pending while it is again a full channel behind
C19_Witness ==
    /\ rx.on /\ rx.since > 0
    /\ rx.lagged > 0
    /\ rx.got # <<>>
    /\ rx.got[1].at > rx.since + 1
    /\ Len(events) - rx.pos >= BusCapacity
    /\ \E t \in Callers : pc[t] \in Publishing

\* C20: when an explicit connect call returns, with success or with failure,
\* the live connection's reconnect_attempts is 0; and when the reconnect loop
\* has handled an attempt whose start succeeded it is 0
C20_AttemptsReset ==
    [][ /\ \A t \in Callers :
             ( /\ calls # <<>> /\ LastCall.by = t /\ LastCall.op = "connect"
               /\ pc[t] = "c_result" /\ pc'[t] = "idle"
               /\ current_connection' # NoConn )
             => current_connection'.reconnect_attempts = 0
        /\ \A t \in Loops :
             ( /\ pc[t] = "lp_result" /\ res[t] = "Ok" /\ pc'[t] # "lp_result"
               /\ current_connection' # NoConn )
             => current_connection'.reconnect_attempts = 0 ]_vars

\* C21: the live connection's reconnect_attempts increases only in an attempt
\* of the reconnect loop: every step that increases it is the loop's step
\* from its select! to the attempt
C21_OnlyLoopIncrements ==
    [][ ( /\ current_connection # NoConn /\ current_connection' # NoConn
          /\ current_connection'.id = current_connection.id
          /\ current_connection'.reconnect_attempts
               > current_connection.reconnect_attempts )
        => \E t \in Loops : pc[t] = "lp_select" /\ pc'[t] = "lp_config" ]_vars

\* C22: in a connect(descriptor, mode) the live Connection first appears in
\* state Connecting with upload = download = 0, no last_error and
\* reconnect_attempts = 0; once start is called the descriptor is stored; and
\* when the connect returns success the state is Connected, for that descriptor
C22_ConnectSuccess ==
    [][ \A t \in Callers :
          /\ ( /\ pc[t] = "c_new" /\ pc'[t] # "c_new" )
             => /\ current_connection' # NoConn
                /\ current_connection # NoConn
                     => current_connection'.id # current_connection.id
                /\ \A i \in 1..Len(history) : history[i].id # current_connection'.id
                /\ current_connection'.desc = LastCall.arg[1]
                /\ current_connection'.state = "Connecting"
                /\ current_connection'.upload = 0
                /\ current_connection'.download = 0
                /\ current_connection'.last_error = ""
                /\ current_connection'.reconnect_attempts = 0
          /\ ( /\ calls # <<>> /\ LastCall.by = t /\ LastCall.op = "connect"
               /\ pc[t] = "c_result" /\ pc'[t] = "idle" /\ res'[t] = "Ok" )
             => /\ current_connection' # NoConn
                /\ current_connection'.state = "Connected"
                /\ current_connection'.desc = LastCall.arg[1]
                /\ current_connection'.last_error = ""
                /\ current_config' = LastCall.arg[1] ]_vars

\* a second connect, to another descriptor, has returned success: the live
\* Connection is a new one, Connected, and the engine runs
C22_Witness ==
    /\ Len(calls) = 2
    /\ calls[1].op = "connect" /\ calls[2].op = "connect"
    /\ calls[1].arg[1] # calls[2].arg[1]
    /\ LastCallReturned("connect")
    /\ res[LastCall.by] = "Ok"
    /\ LiveIn("Connected")
    /\ current_connection.id = 2
    /\ current_config = calls[2].arg[1]
    /\ status = "Running"

\* C23: should_reconnect(attempts) is false when enabled is false or the
\* strategy is Disabled, false when max_attempts > 0 and attempts >=
\* max_attempts, and true in every other case, so for every attempts when
\* max_attempts = 0
C23_ShouldReconnect ==
    probe.fn = "should_reconnect" =>
      /\ (~probe.cfg.enabled \/ probe.cfg.strategy = Disabled) => probe.out = FALSE
      /\ (probe.cfg.max_attempts > 0 /\ probe.attempt >= probe.cfg.max_attempts)
           => probe.out = FALSE
      /\ ( /\ probe.cfg.enabled /\ probe.cfg.strategy # Disabled
           /\ ~(probe.cfg.max_attempts > 0 /\ probe.attempt >= probe.cfg.max_attempts) )
           => probe.out = TRUE
      /\ ( /\ probe.cfg.enabled /\ probe.cfg.strategy # Disabled
           /\ probe.cfg.max_attempts = 0 ) => probe.out = TRUE

\* should_reconnect was called on a disabled configuration whose strategy and
\* limit alone would allow the attempt
C23_Witness ==
    /\ probe.fn = "should_reconnect"
    /\ ~probe.cfg.enabled
    /\ probe.cfg.strategy = ExponentialBackoff(1, 60, 2)
    /\ probe.cfg.max_attempts = 5 /\ probe.attempt = 4
    /\ probe.out = FALSE

\* the delay the specification gives for zero-based attempt k, in seconds
PolicyDelay(strategy, k) ==
    IF strategy[1] \in {"Disabled", "Immediate"} THEN 0
    ELSE IF strategy[1] = "FixedDelay" THEN strategy[2]
    ELSE scaled_up(strategy[2], strategy[4], k, strategy[3])

\* what C24 says, for the attempts below half the range of the attempt number
C24_DelayLowAttempts ==
    (probe.fn = "calculate_delay" /\ probe.attempt < 2 ^ (AttemptBits - 1))
    => probe.out = PolicyDelay(probe.cfg.strategy, probe.attempt)

\* C24: the retry delay for zero-based attempt k is 0 for Immediate and
\* Disabled, d for FixedDelay(d) whatever k is, and min(initial *
\* multiplier^k, max) for ExponentialBackoff: with initial 1 s, max 60 s and
\* multiplier 2 it is 1, 2, 4, 8 s for k = 0..3 and 60 s for k = 10, and it
\* never exceeds max
C24_Delay ==
    probe.fn = "calculate_delay" =>
      /\ probe.out = PolicyDelay(probe.cfg.strategy, probe.attempt)
      /\ probe.cfg.strategy = ExponentialBackoff(1, 60, 2) =>
           /\ probe.attempt \in 0..3 => probe.out = 2 ^ probe.attempt
           /\ probe.attempt = 10 => probe.out = 60
           /\ probe.out <= 60

\* the collector totals after the first k logged effects
TotalsAt(k) == IF k = 0 THEN <<0, 0>> ELSE <<slog[k].up, slog[k].down>>

\* the logged call i ran while a reset took effect
ResetDuring(i) ==
    \E j \in (slog[i].from + 1)..(i - 1) : slog[j].op = "reset"

\* C25: reset() is atomic relative to readers: a get_totals, get_snapshots or
\* get_current_speeds that runs while a reset takes effect returns what the
\* collector held at one moment of the call, never a pre-reset upload total
\* together with a zeroed download total
C25_ResetAtomic ==
    \A i \in 1..Len(slog) :
      (slog[i].op = "get_totals" /\ ResetDuring(i))
      => \E k \in slog[i].from..(i - 1) : TotalsAt(k) = slog[i].out

\* the sums of the update_traffic arguments logged after the last reset
\* before position i, up to position i
RECURSIVE SumSince(_)
SumSince(i) ==
    IF i = 0 \/ slog[i].op = "reset" THEN <<0, 0>>
    ELSE IF slog[i].op = "update_traffic"
         THEN <<SumSince(i - 1)[1] + slog[i].arg[1], SumSince(i - 1)[2] + slog[i].arg[2]>>
         ELSE SumSince(i - 1)

\* what C26 says, as long as the sums fit the counters
C26_TotalsWithinRange ==
    \A i \in 1..Len(slog) :
      /\ (SumSince(i)[1] < ByteMod /\ SumSince(i)[2] < ByteMod)
           => TotalsAt(i) = SumSince(i)
      /\ slog[i].op = "reset" => slog[i].snaps = <<>>

\* C26: between two resets each total never decreases and equals the sum of
\* the update_traffic arguments applied since the last reset (or since
\* creation); after reset() the totals are (0, 0) and the snapshot history is
\* empty
C26_Totals ==
    \A i \in 1..Len(slog) :
      /\ TotalsAt(i) = SumSince(i)
      /\ slog[i].op # "reset" =>
           /\ TotalsAt(i)[1] >= TotalsAt(i - 1)[1]
           /\ TotalsAt(i)[2] >= TotalsAt(i - 1)[2]
      /\ slog[i].op = "reset" => slog[i].snaps = <<>>

\* the writer's update_stats(u, d) writes the connection at this step
UsConnStep == sctl["writer"].pc = "us_conn" /\ sctl'["writer"].pc # "us_conn"
\* the writer's update_stats(u, d) writes the collector at this step
UsTrafficStep == sctl["writer"].pc = "ut_download" /\ sctl'["writer"].pc # "ut_download"

\* what C27 says, as long as the sums fit the counters
C27_UpdateStatsWithinRange ==
    [][ LET u == sctl["writer"].arg[1]
            d == sctl["writer"].arg[2]
            c == current_connection
        IN  /\ ( /\ UsConnStep
                 /\ c # NoConn => (c.upload + u < ByteMod /\ c.download + d < ByteMod) )
               => /\ current_connection' =
                       IF c = NoConn THEN NoConn
                       ELSE [c EXCEPT !.upload = @ + u, !.download = @ + d]
                  /\ sctl'["writer"].pc = "ut_upload"
            /\ ( /\ UsTrafficStep
                 /\ upload_bytes + u < ByteMod /\ download_bytes + d < ByteMod )
               => /\ upload_bytes' = upload_bytes + u
                  /\ download_bytes' = download_bytes + d
                  /\ current_connection' = c ]_vars

\* C27: update_stats(u, d) adds exactly u and d to the collector totals and,
\* when there is a live connection with stats, exactly u and d to its upload
\* and download; with no live connection only the collector changes; the
\* connection's state, reconnect_attempts and last_error are left as they are
C27_UpdateStats ==
    [][ LET u == sctl["writer"].arg[1]
            d == sctl["writer"].arg[2]
            c == current_connection
        IN  /\ UsConnStep
               => /\ current_connection' =
                       IF c = NoConn THEN NoConn
                       ELSE [c EXCEPT !.upload = @ + u, !.download = @ + d]
                  /\ sctl'["writer"].pc = "ut_upload"
            /\ UsTrafficStep
               => /\ upload_bytes' = upload_bytes + u
                  /\ download_bytes' = download_bytes + d
                  /\ current_connection' = c ]_vars

\* the snapshots taken after the last reset among the first i logged effects,
\* in the order taken
RECURSIVE TakenSince(_)
TakenSince(i) ==
    IF i = 0 \/ slog[i].op = "reset" THEN <<>>
    ELSE IF slog[i].op = "take_snapshot" THEN Append(TakenSince(i - 1), slog[i].out)
         ELSE TakenSince(i - 1)

\* the last k elements of q, all of q when it is shorter
LastK(q, k) == IF Len(q) <= k THEN q ELSE SubSeq(q, Len(q) - k + 1, Len(q))

PlainSpeed(cur, prev, half_seconds) ==
    IF cur < prev THEN 0 ELSE (2 * (cur - prev)) \div half_seconds

\* what C29 says, for snapshots a whole number of seconds apart
C29_SpeedsWholeSeconds ==
    \A i \in 1..Len(slog) :
      slog[i].op = "take_snapshot" =>
        LET prev == slog[i].arg
            snap == slog[i].out
        IN  /\ prev = NoSnapshot => snap.upload_speed = 0 /\ snap.download_speed = 0
            /\ ( /\ prev # NoSnapshot /\ snap.timestamp > prev.timestamp
                 /\ (snap.timestamp - prev.timestamp) % 2 = 0 )
               => /\ snap.upload_speed =
                       PlainSpeed(snap.upload_bytes, prev.upload_bytes,
                                  snap.timestamp - prev.timestamp)
                  /\ snap.download_speed =
                       PlainSpeed(snap.download_bytes, prev.download_bytes,
                                  snap.timestamp - prev.timestamp)

\* C29: take_snapshot records per direction the speed (current total -
\* previous snapshot's total) / elapsed seconds since the previous snapshot
\* whenever a previous snapshot exists and time has elapsed; the first
\* snapshot has speed 0, and when the totals shrank because of a reset in
\* between the speed is 0
C29_Speeds ==
    \A i \in 1..Len(slog) :
      slog[i].op = "take_snapshot" =>
        LET prev == slog[i].arg
            snap == slog[i].out
        IN  /\ prev = NoSnapshot => snap.upload_speed = 0 /\ snap.download_speed = 0
            /\ (prev # NoSnapshot /\ snap.timestamp > prev.timestamp)
               => /\ snap.upload_speed =
                       PlainSpeed(snap.upload_bytes, prev.upload_bytes,
                                  snap.timestamp - prev.timestamp)
                  /\ snap.download_speed =
                       PlainSpeed(snap.download_bytes, prev.download_bytes,
                                  snap.timestamp - prev.timestamp)

\* C30: the connection history never holds more than 100 records: a
\* disconnect that would make it exceed 100 evicts the oldest record, the
\* remaining records keep their order, and every record in history has state
\* Disconnected
C30_HistoryBounded ==
    /\ [](/\ Len(history) <= 100
          /\ \A i \in 1..Len(history) : history[i].state = "Disconnected")
    /\ [][ \A t \in Callers :
             (pc[t] = "d_move" /\ pc'[t] # "d_move" /\ current_connection # NoConn)
             => LET rec == [current_connection EXCEPT !.state = "Disconnected"]
                IN  IF Len(history) = 100
                    THEN history' = Tail(history) \o <<rec>>
                    ELSE history' = history \o <<rec>> ]_vars

\* two disconnects on a full history have returned: the two oldest records
\* were evicted and the two new ones are the last
C30_Witness ==
    /\ Len(history) = 100
    /\ history[1].id = 3
    /\ history[99].id = 101 /\ history[100].id = 102
    /\ \A i \in 1..99 : history[i].id < history[i + 1].id
    /\ \E t \in Callers : pc[t] = "idle"
    /\ current_connection = NoConn

\* the engine process the supervisor holds the PID of has exited on its own
\* and the reaper task has seen the exit
ExitObserved ==
    /\ process_pid # 0
    /\ proc[process_pid] = "exited"
    /\ reaper[process_pid] = "done"

\* C31: when the engine process exits on its own while the supervisor status
\* is Running, the status does not stay Running: a later start(config) spawns
\* a new process instead of returning success as a no-op
C31_StartAfterExitSpawns ==
    /\ [](ExitObserved => status # "Running")
    /\ [][ \A t \in Tasks :
             (pc[t] = "start" /\ pc'[t] # "start" /\ ExitObserved)
             => pc'[t] = "st_upd" ]_vars

\* what holds instead: the reaper leaves the status alone, so a start called
\* after the exit was observed, with no stop in between, returns Ok at once
C31_StartAfterExitIsNoOp ==
    [][ \A t \in Tasks :
          (pc[t] = "start" /\ pc'[t] # "start" /\ ExitObserved /\ status = "Running")
          => (pc'[t] = Head(stack[t]) /\ res'[t] = "Ok" /\ UNCHANGED <<proc, events>>) ]_vars

\* task t is inside XrayCore::start
InStart(t) ==
    pc[t] \in {"start", "st_upd", "st_spawn", "st_pid", "st_grace", "st_time", "st_run"}

\* C32: after disconnect() has returned and every start call that was in
\* flight has completed, the supervisor is not Running: no engine is left
\* running without a live connection, also when a reconnect loop was active at
\* the time of the disconnect
C32_NoEngineAfterDisconnect ==
    ( /\ LastCallReturned("disconnect")
      /\ \A t \in Tasks : ~InStart(t) )
    => status # "Running"

\* the same without a reconnect loop: it holds when connect and disconnect
\* are the only calls
C32_NoEngineAfterDisconnectNoLoop ==
    ( /\ LastCallReturned("disconnect")
      /\ \A t \in Loops : pc[t] = "unborn" )
    => status # "Running"

\* the calls so far are connect, start_auto_reconnect, connect: every
\* reconnect loop alive was started for the first connection, and the
\* connection with id 2 was created by the later connect
LaterConnect ==
    /\ Len(calls) = 3
    /\ calls[1].op = "connect"
    /\ calls[2].op = "start_auto_reconnect"
    /\ calls[3].op = "connect"
    /\ current_connection # NoConn
    /\ current_connection.id = 2

\* C33: a reconnect loop started for one connection never changes the state,
\* reconnect_attempts or last_error of a Connection created by a later connect
\* call
C33_LoopLeavesLaterConnection ==
    [][ ( /\ LaterConnect
          /\ \E t \in Loops : pc'[t] # pc[t] )
        => /\ current_connection'.state = current_connection.state
           /\ current_connection'.reconnect_attempts = current_connection.reconnect_attempts
           /\ current_connection'.last_error = current_connection.last_error ]_vars


\* the monitor task has fallen more than the channel keeps behind
MonitorBehind == pc[Monitor] = "mon_recv" /\ Len(events) - cursor > BusCapacity

\* C34: the reconnect monitor survives event loss: after the bus has dropped
\* events for the lagging monitor task (more than the bus capacity of events,
\* log lines included, published before it reads), the task goes on receiving,
\* and a later StatusChanged(Error) still triggers the reconnect loop
C34_MonitorSurvivesLag ==
    /\ [][ MonitorBehind => pc'[Monitor] = "mon_recv" ]_vars
    /\ [][ ( /\ pc[Monitor] = "mon_recv"
             /\ cursor' # cursor
             /\ events[cursor'].kind = "StatusChanged"
             /\ events[cursor'].status = "Error" )
           => pc'[Monitor] = "start_auto_reconnect" ]_vars

\* the monitor task ends only by a recv() that lagged
C34_MonitorEndsOnlyByLag ==
    [][ (pc[Monitor] = "mon_recv" /\ ~MonitorBehind) => pc'[Monitor] # "mon_done" ]_vars

\* the supervisor has learned that process p exited: its reaper saw the exit,
\* or the start that spawned it found it gone after the grace interval
SeenExit(p) ==
    /\ proc[p] \in {"exited", "killed"}
    /\ \/ reaper[p] = "done"
       \/ /\ reaper[p] = "none"
          /\ \A t \in Tasks : ~(pc[t] \in {"st_pid", "st_grace", "st_time"} /\ child[t] = p)

\* C35: the stored PID is cleared whenever the supervisor learns that the
\* process exited (a start that failed because the process exited within the
\* grace interval, or the reaper observing the exit), so stop() only signals a
\* process that the supervisor started and has not yet seen exit
C35_NoStalePid ==
    /\ [](process_pid # 0 => ~SeenExit(process_pid))
    /\ [][ \A t \in Tasks :
             (pc[t] = "sp_kill" /\ pc'[t] # "sp_kill" /\ process_pid # 0)
             => ~SeenExit(process_pid) ]_vars

\* the connect calls made so far
ConnectCalls == {i \in 1..Len(calls) : calls[i].op = "connect"}

\* C36: a reconnect attempt starts the engine with the same routing mode
\* (global, smart or direct) that the original connect call used for the
\* stored descriptor; checked where one connect has been called, so that the
\* stored descriptor is the one of that call
C36_ReconnectKeepsMode ==
    [][ \A t \in Loops :
          (pc[t] = "lp_config" /\ pc'[t] = "start" /\ Cardinality(ConnectCalls) = 1)
          => \A i \in ConnectCalls :
               /\ arg'[t][1] = calls[i].arg[1]
               /\ arg'[t][2] = calls[i].arg[2] ]_vars

\* what holds instead: the attempt uses the stored descriptor, always with
\* mode global
C36_ReconnectUsesGlobal ==
    [][ \A t \in Loops :
          (pc[t] = "lp_config" /\ pc'[t] = "start" /\ Cardinality(ConnectCalls) = 1)
          => \A i \in ConnectCalls :
               /\ arg'[t][1] = calls[i].arg[1]
               /\ arg'[t][2] = "global" ]_vars

\* a snapshot that holds no bytes
ZeroCounts(s) == s.upload_bytes = 0 /\ s.download_bytes = 0

\* every collector call has returned, a reset has taken effect and no traffic
\* was counted after it: the totals have been 0 ever since, so a snapshot with
\* other counts read them before the reset
QuietSinceReset ==
    /\ \A t \in StatsTasks : sctl[t] = Idle
    /\ \E r \in 1..Len(slog) :
         /\ slog[r].op = "reset"
         /\ \A k \in (r + 1)..Len(slog) : slog[k].op # "update_traffic"

\* C37: a take_snapshot that overlaps a reset leaves no stale data behind:
\* once both have returned, neither the last snapshot nor the history holds a
\* snapshot whose cumulative byte counts were read before the reset
C37_NoStaleSnapshot ==
    QuietSinceReset
    => /\ last_snapshot # NoSnapshot => ZeroCounts(last_snapshot)
       /\ \A i \in 1..Len(snapshots) : ZeroCounts(snapshots[i])

\* without an overlap nothing stale is left: when the reset took effect
\* before the first read of every take_snapshot that returned after it, the
\* snapshots hold the totals as they are after the reset
C37_NoStaleSnapshotSequential ==
    ( /\ QuietSinceReset
      /\ \A r, k \in 1..Len(slog) :
           (slog[r].op = "reset" /\ slog[k].op = "take_snapshot" /\ r < k)
           => slog[k].from >= r )
    => /\ last_snapshot # NoSnapshot => ZeroCounts(last_snapshot)
       /\ \A i \in 1..Len(snapshots) : ZeroCounts(snapshots[i])

\* the health-check loops that are alive: a spawned loop never ends
HealthLoopsAlive == {p \in Pids : hloop[p] # "unborn"}

\* C38: at most one health-check loop is alive per supervisor however many
\* start/stop/restart cycles are run, so that at most one HealthCheck event is
\* published per tick
C38_OneHealthLoop ==
    /\ health_loops <= 1
    /\ Cardinality(HealthLoopsAlive) <= 1

\* what holds instead: one loop per start that reached Running
C38_OneHealthLoopPerStart ==
    /\ health_loops = Cardinality({i \in 1..Len(events) :
                                     events[i] = StatusChanged("Running", "start")})
    /\ Cardinality(HealthLoopsAlive) = health_loops

\* a reconnect loop between two attempts waits for its timer or for the
\* cancellation; a loop that broke out of `loop` is over
LoopAtRest(t) == pc[t] \in {"unborn", "lp_select", "lp_done"}

\* some call has not returned yet, or a reconnect loop is between two waits
Busy ==
    \/ \E t \in Callers : pc[t] # "idle"
    \/ \E t \in StatsTasks : sctl[t] # Idle
    \/ \E t \in Loops : ~LoopAtRest(t)

\* C39: no interleaving of connect, disconnect, update_stats,
\* enable/disable_auto_reconnect, start_auto_reconnect, the reconnect loop,
\* update_traffic, take_snapshot and reset deadlocks on the read-write locks:
\* whenever an operation is in progress, eventually every call has returned
\* and every reconnect loop waits for its timer or is over
C39_NoLockDeadlock == Busy ~> ~Busy

\* C39's case has happened: update_stats holds the current_connection lock
\* and waits for the upload lock, which reset holds while it waits for the
\* rest of its locks; disconnect waits for the current_connection lock and so
\* does the reconnect loop
C39_Witness ==
    /\ sctl["writer"].pc = "ut_upload"
    /\ HoldsUpload("resetter")
    /\ \E t \in Callers : pc[t] \in {"disconnect", "d_move"}
    /\ \E t \in Loops : pc[t] \in {"lp_read", "lp_result"}

\* the third space-separated field of a line, <<>> when there is none
ThirdField(l) == IF Len(splitn3(l)) >= 3 THEN splitn3(l)[3] ELSE <<>>

\* C40: parse_log_line is total: for every input line, including a line whose
\* third space-separated field begins with ']' or contains ']' without a
\* leading '[', it returns a log entry and never aborts the log-reader task
C40_ParseTotal ==
    probe.fn = "parse_log_line"
    => /\ probe.out # Panic
       /\ events = <<LogReceived>>

\* where it is total: every line whose third field has no ']', or has its
\* first ']' after a first character of one byte, gives an entry; the level
\* is what stands between that first character and the ']'
C40_ParseTotalOnBracketed ==
    ( /\ probe.fn = "parse_log_line"
      /\ LET f == ThirdField(probe.line)
         IN  \/ find(f, "]") = -1
             \/ (find(f, "]") >= 1 /\ f[1] # "C3") )
    => /\ probe.out # Panic
       /\ events = <<LogReceived>>
       /\ find(ThirdField(probe.line), "]") >= 1
          => probe.out.level = SubSeq(ThirdField(probe.line), 2,
                                      find(ThirdField(probe.line), "]"))
====
